---- MODULE Spec2Model ----
(***************************************************************************)
(* Orion Analytics backend: the group-comparison test selector             *)
(* (stats_service.compare_groups), the grouping engine of                  *)
(* calculate_descriptive_stats, and the dataset cache of data_service      *)
(* (get_cached_dataframe / clear_cache) with the dataset endpoints that    *)
(* invalidate it.                                                          *)
(*                                                                         *)
(* The module holds several specifications over one set of variables; a    *)
(* specification leaves the variables of the other parts at their idle     *)
(* values:                                                                 *)
(*   SpecSelect   compare_groups on one variable, inputs drawn in Init     *)
(*   SpecCompare  the per-variable loop of compare_groups                  *)
(*   SpecLru      get_cached_dataframe and clear_cache, one call at a time *)
(*   SpecRace     the same two functions called from concurrent threads    *)
(*   SpecApi      upload, request, update_column_type and delete_dataset   *)
(*   SpecGroup    calculate_descriptive_stats grouping by one column       *)
(*   SpecFilter   data_service.apply_filters                               *)
(*   SpecVarType  data_service.detect_variable_type                        *)
(*   SpecColKey   sanitize_column_name, analyze_columns and the renaming   *)
(*   SpecColStats stats_service.calculate_column_stats                     *)
(*   SpecCorr     stats_service.calculate_correlation_matrix               *)
(*   SpecEndpoints the statistics and correlation handlers over the cache  *)
(*   SpecSort     the sort and the limit of the groups                     *)
(*   SpecEffect   the effect sizes of compare_groups                       *)
(*   SpecFlight   a request racing with delete_dataset or                  *)
(*                update_column_type                                       *)
(*   SpecUpload   upload_dataset statement by statement                    *)
(*   SpecKeys     the group keys of several grouping columns               *)
(*   SpecTests    the comparison tests of calculate_descriptive_stats      *)
(*   SpecServe    the handlers one at a time, with the tables' content     *)
(***************************************************************************)
EXTENDS Integers, Sequences, FiniteSets, TLC

VARIABLES
    sel_in,       \* SpecSelect: the call's inputs (table groups, policy, library outcomes)
    sel_out,      \* SpecSelect: what compare_groups computed for them, or NoOut
    cmp_req,      \* SpecCompare: the call's arguments (variables, policy, number of group keys)
    cmp_pos,      \* SpecCompare: next position of the `for var in variables` loop
    results,      \* SpecCompare: compare_groups' results list
    cmp_log,      \* SpecCompare: per processed position, what the iteration did
    df_cache,     \* data_service._df_cache: dataset id -> loaded table
    cache_order,  \* data_service._cache_order: the recency list, oldest first
    used_before,  \* ghost: <<a, b>> when cached a was last requested before cached b
    last,         \* the last call made and how it ended
    db,           \* the datasets table: dataset id -> row, or NoRow
    next_id,      \* the id the next upload gets
    thr,          \* SpecRace: per request thread, the line it is at and its locals
    calls,        \* SpecRace: calls begun so far
    same_id_gets_only, \* ghost: every overlap so far was between gets of one id
    grp_in,       \* SpecGroup: the table and the grouping request
    grp_out,      \* SpecGroup: what calculate_descriptive_stats returned
    fn_in,        \* the arguments of a call of a function without side effects
    fn_out        \* what that call returned, or Pending

selVars == <<sel_in, sel_out>>
cmpVars == <<cmp_req, cmp_pos, results, cmp_log>>
cacheVars == <<df_cache, cache_order>>
apiVars == <<db, next_id>>
raceVars == <<thr, calls, same_id_gets_only>>
grpVars == <<grp_in, grp_out>>
fnVars == <<fn_in, fn_out>>
vars == <<sel_in, sel_out, cmp_req, cmp_pos, results, cmp_log,
          df_cache, cache_order, used_before, last, db, next_id,
          thr, calls, same_id_gets_only, grp_in, grp_out, fn_in, fn_out>>

(* Idle values of the parts a specification does not use.                  *)
SelectIdle == sel_in = <<>> /\ sel_out = <<>>
CompareIdle == cmp_req = <<>> /\ cmp_pos = 0 /\ results = <<>> /\ cmp_log = <<>>
CacheIdle == df_cache = <<>> /\ cache_order = <<>> /\ used_before = {} /\ last = <<>>
ApiIdle == db = <<>> /\ next_id = 0
RaceIdle == thr = <<>> /\ calls = 0 /\ same_id_gets_only = TRUE
GroupIdle == grp_in = <<>> /\ grp_out = <<>>
FnIdle == fn_in = <<>> /\ fn_out = <<>>

-----------------------------------------------------------------------------
(* Bounds of the model *)

MaxGroups == 3          \* group keys in the table handed to compare_groups
MaxVars == 2            \* length of the `variables` list of a compare_groups call

-----------------------------------------------------------------------------
(* compare_groups: thresholds of the source *)

MinGroupObs == 2        \* len(g) >= 2
ShapiroMin == 8         \* len(gd) >= 8
ShapiroMax == 5000      \* len(gd) < 5000
NormaltestMin == 20     \* elif len(gd) >= 20

(* One group's column of the variable, by kind of cell: numeric cells,     *)
(* missing cells, and text cells that pd.to_numeric(errors='coerce')       *)
(* turns into NaN.                                                         *)
CellKinds ==
    { [num |-> 1,    missing |-> 0, text |-> 1],
      [num |-> 1,    missing |-> 1, text |-> 0],
      [num |-> 7,    missing |-> 1, text |-> 0],
      [num |-> 8,    missing |-> 0, text |-> 0],
      [num |-> 5000, missing |-> 0, text |-> 0] }

(* Outcome of a scipy call: for a normality or Levene test, p > alpha      *)
(* ("pass"), p <= alpha ("fail") or an exception ("raise"); "none" when    *)
(* the call is not made.                                                   *)
AssumptionOutcomes == {"pass", "fail", "raise"}
(* Outcome of the comparison test: finite statistic and p-value ("ok"), a  *)
(* NaN statistic or p-value ("nan"), or an exception ("raise").            *)
TestOutcomes == {"ok", "nan", "raise"}

(* g = groups.get_group(key)[var]; fillna(0) or dropna(); then             *)
(* pd.to_numeric(g, errors='coerce').dropna(): the number of observations. *)
GroupObs(cells, treat_missing_as_zero) ==
    IF treat_missing_as_zero THEN cells.num + cells.missing ELSE cells.num

(* Which normality routine the loop calls for a group of n observations.   *)
NormalityRoutine(n) ==
    IF n >= ShapiroMin /\ n < ShapiroMax THEN "shapiro"
    ELSE IF n >= NormaltestMin THEN "normaltest"
    ELSE "none"

(* Mutant of valid_group_keys: keeps a group with a single observation.    *)
RECURSIVE valid_group_keys_KeepsSingleton(_, _, _)
valid_group_keys_KeepsSingleton(groups, treat_missing_as_zero, k) ==
    IF k > Len(groups) THEN <<>>
    ELSE (IF GroupObs(groups[k].cells, treat_missing_as_zero) >= 1
          THEN <<k>> ELSE <<>>)
         \o valid_group_keys_KeepsSingleton(groups, treat_missing_as_zero, k + 1)

(* The keys of the groups kept: `if len(g) >= 2: group_data.append(...)`.  *)
RECURSIVE valid_group_keys(_, _, _)
valid_group_keys(groups, treat_missing_as_zero, k) ==
    IF k > Len(groups) THEN <<>>
    ELSE (IF GroupObs(groups[k].cells, treat_missing_as_zero) >= MinGroupObs
          THEN <<k>> ELSE <<>>)
         \o valid_group_keys(groups, treat_missing_as_zero, k + 1)

(* group_data: the observation counts of the kept groups, in key order.    *)
group_data(groups, treat_missing_as_zero) ==
    LET keys == valid_group_keys(groups, treat_missing_as_zero, 1)
    IN  [i \in 1..Len(keys) |-> GroupObs(groups[keys[i]].cells, treat_missing_as_zero)]

(* normal_count: the groups whose normality routine ran and gave p > alpha. *)
normal_count(groups, treat_missing_as_zero) ==
    LET keys == valid_group_keys(groups, treat_missing_as_zero, 1)
        gd == group_data(groups, treat_missing_as_zero)
    IN  Cardinality({ i \in 1..Len(keys) :
                        /\ NormalityRoutine(gd[i]) # "none"
                        /\ groups[keys[i]].norm = "pass" })

(* Mutant of is_normal: compares the passes with the groups that cast a    *)
(* vote, so that no vote at all counts as normal.                          *)
is_normal_OverVotes(groups, treat_missing_as_zero) ==
    LET keys == valid_group_keys(groups, treat_missing_as_zero, 1)
        gd == group_data(groups, treat_missing_as_zero)
        votes == Cardinality({ i \in 1..Len(keys) :
                                 /\ NormalityRoutine(gd[i]) # "none"
                                 /\ groups[keys[i]].norm \in {"pass", "fail"} })
    IN  2 * normal_count(groups, treat_missing_as_zero) >= votes

(* is_normal = normal_count >= len(group_data) * 0.5 *)
is_normal(groups, treat_missing_as_zero) ==
    2 * normal_count(groups, treat_missing_as_zero)
        >= Len(group_data(groups, treat_missing_as_zero))

(* is_homogeneous: False unless levene returned p > alpha.                 *)
is_homogeneous(levene) == levene = "pass"

(* Mutant of SelectTest: the k-group branch tests homogeneity only.        *)
SelectTest_IgnoresNormality(n_groups, normal, homogeneous) ==
    IF n_groups = 2
    THEN IF normal
         THEN [test_name |-> IF ~homogeneous THEN "Welch's t-test" ELSE "t-test independente",
               routine |-> "ttest_ind", equal_var |-> homogeneous,
               effect_size_name |-> "d de Cohen"]
         ELSE [test_name |-> "Mann-Whitney U",
               routine |-> "mannwhitneyu", equal_var |-> FALSE,
               effect_size_name |-> "d de Cohen"]
    ELSE IF homogeneous
         THEN [test_name |-> "ANOVA one-way",
               routine |-> "f_oneway", equal_var |-> FALSE,
               effect_size_name |-> "eta2"]
         ELSE [test_name |-> "Kruskal-Wallis",
               routine |-> "kruskal", equal_var |-> FALSE,
               effect_size_name |-> "eta2"]

(* The branch of `if n_groups == 2: ... else: ...`: the test's name, the   *)
(* scipy routine called for it and the effect size computed after it.      *)
SelectTest(n_groups, normal, homogeneous) ==
    IF n_groups = 2
    THEN IF normal
         THEN [test_name |-> IF ~homogeneous THEN "Welch's t-test" ELSE "t-test independente",
               routine |-> "ttest_ind", equal_var |-> homogeneous,
               effect_size_name |-> "d de Cohen"]
         ELSE [test_name |-> "Mann-Whitney U",
               routine |-> "mannwhitneyu", equal_var |-> FALSE,
               effect_size_name |-> "d de Cohen"]
    ELSE IF normal /\ homogeneous
         THEN [test_name |-> "ANOVA one-way",
               routine |-> "f_oneway", equal_var |-> FALSE,
               effect_size_name |-> "eta2"]
         ELSE IF normal
         THEN [test_name |-> "Welch's ANOVA",
               routine |-> "f_oneway", equal_var |-> FALSE,
               effect_size_name |-> "eta2"]
         ELSE [test_name |-> "Kruskal-Wallis",
               routine |-> "kruskal", equal_var |-> FALSE,
               effect_size_name |-> "eta2"]

NoEntry == [variable |-> "-"]

(* One iteration of `for var in variables` for a variable that is a column *)
(* of the table: what the iteration computed and how it ended.             *)
(*   fate "few"    : fewer than 2 valid groups, `continue`                 *)
(*   fate "raised" : the test raised, `except Exception: continue`         *)
(*   fate "nan"    : statistic or p-value not finite, `continue`           *)
(*   fate "entry"  : results.append(GroupComparisonTest(...))              *)
CompareVar(var, groups, treat_missing_as_zero, levene, test) ==
    LET gd == group_data(groups, treat_missing_as_zero)
        n_groups == Len(gd)
        normal == is_normal(groups, treat_missing_as_zero)
        homogeneous == is_homogeneous(levene)
        sel == SelectTest(n_groups, normal, homogeneous)
        base == [n_groups |-> n_groups,
                 group_data |-> gd,
                 normal_count |-> normal_count(groups, treat_missing_as_zero)]
    IN  IF n_groups < 2
        THEN base @@ [fate |-> "few", entry |-> NoEntry]
        ELSE base @@
             [picked |-> sel,
              is_normal |-> normal,
              is_homogeneous |-> homogeneous,
              fate |-> IF test = "ok" THEN "entry"
                       ELSE IF test = "nan" THEN "nan" ELSE "raised",
              entry |-> IF test = "ok"
                        THEN [variable |-> var,
                              test_name |-> sel.test_name,
                              effect_size_name |-> sel.effect_size_name,
                              assumptions_met |->
                                  [normalidade |-> normal,
                                   homocedasticidade |-> homogeneous]]
                        ELSE NoEntry]

-----------------------------------------------------------------------------
(* SpecSelect: compare_groups on one variable of the table.                *)

NoOut == [fate |-> "pending"]

(* A group's input: its cells, and the outcome of its normality routine    *)
(* when one is called for it.                                              *)
GroupInputs(treat_missing_as_zero) ==
    { [cells |-> c, norm |-> o] : c \in CellKinds, o \in AssumptionOutcomes \cup {"none"} }

GroupInputOk(g, treat_missing_as_zero) ==
    LET n == GroupObs(g.cells, treat_missing_as_zero)
        called == n >= MinGroupObs /\ NormalityRoutine(n) # "none"
    IN  (g.norm = "none") <=> ~called

(* The contents a column can have in a table of n group keys.              *)
ColumnInputs ==
    [tmz \in BOOLEAN, n \in 0..MaxGroups |->
        [1..n -> {g \in GroupInputs(tmz) : GroupInputOk(g, tmz)}]]

NoIn == [groups |-> <<>>]

SelectInit ==
    /\ sel_in = NoIn
    /\ sel_out = NoOut
    /\ CompareIdle /\ CacheIdle /\ ApiIdle /\ RaceIdle /\ GroupIdle /\ FnIdle

(* The arguments of one call and the outcomes of the library calls it will *)
(* make: the policy, the column's content per group key, Levene's test and *)
(* the comparison test.                                                    *)
SelectDraw ==
    /\ sel_in = NoIn
    /\ \E tmz \in BOOLEAN, n \in 0..MaxGroups, lev \in AssumptionOutcomes,
          tst \in TestOutcomes :
         \E gs \in ColumnInputs[tmz, n] :
            sel_in' = [treat_missing_as_zero |-> tmz, groups |-> gs,
                       levene |-> lev, test |-> tst]
    /\ UNCHANGED <<sel_out, cmpVars, cacheVars, used_before, last, apiVars, raceVars, grpVars, fnVars>>

(* compare_groups(df, [var], group_by_col, ...) with var a column of df.   *)
SelectRun ==
    /\ sel_in # NoIn
    /\ sel_out = NoOut
    /\ sel_out' =
         IF Len(sel_in.groups) < 2
         THEN [fate |-> "no_groups", entry |-> NoEntry]
         ELSE CompareVar("x", sel_in.groups, sel_in.treat_missing_as_zero,
                         sel_in.levene, sel_in.test)
    /\ UNCHANGED <<sel_in, cmpVars, cacheVars, used_before, last, apiVars, raceVars, grpVars, fnVars>>

SelectNext == SelectDraw \/ SelectRun

SpecSelect == SelectInit /\ [][SelectNext]_vars

-----------------------------------------------------------------------------
(* SpecCompare: the `for var in variables` loop of compare_groups.         *)

(* Columns of the table besides the grouping column; "ghost" is requested  *)
(* but is no column of the table.                                          *)
TableColumns == {"x", "y"}
VarNames == TableColumns \cup {"ghost"}

RECURSIVE SeqsUpTo(_, _)
SeqsUpTo(S, n) ==
    IF n = 0 THEN {<<>>}
    ELSE LET shorter == SeqsUpTo(S, n - 1)
         IN  shorter \cup { Append(q, e) : q \in { r \in shorter : Len(r) = n - 1 }, e \in S }

(* The column contents the loop is run on: groups of 2 and of 8            *)
(* observations under treat-as-zero, of 1 and of 8 under drop.             *)
LoopColumnInputs ==
    [tmz \in BOOLEAN, n \in 0..MaxGroups |->
        [1..n -> {g \in GroupInputs(tmz) :
                    /\ GroupInputOk(g, tmz)
                    /\ g.cells.text = 0 /\ g.cells.num \in {1, 8}}]]

(* What one iteration can compute for a column of a table with n group     *)
(* keys: CompareVar over the contents of the column and every outcome of   *)
(* the library calls. `computed` and `test` keep what the input was:       *)
(* whether at least 2 groups had 2 observations, and the outcome of the    *)
(* comparison test.                                                        *)
IterationCases ==
    [tmz \in BOOLEAN, n \in 0..MaxGroups |->
        { LET r == CompareVar("v", gs, tmz, lev, tst)
              enough == Cardinality({ k \in 1..n : GroupObs(gs[k].cells, tmz) >= 2 }) >= 2
          IN  [computed |-> enough,
               test |-> IF enough THEN tst ELSE "none",
               fate |-> r.fate,
               entry |-> r.entry] :
            gs \in LoopColumnInputs[tmz, n],
            lev \in AssumptionOutcomes, tst \in TestOutcomes }]

(* Mutant of IterationEnd: the iteration has no try/except around it.      *)
IterationEnd_NoExcept(fate) ==
    IF fate = "entry" THEN "append"
    ELSE IF fate = "raised" THEN "propagate" ELSE "continue"

(* How an iteration ends: results.append(...) for an entry; `continue` for *)
(* too few groups, for a non-finite statistic and, by                      *)
(* `except Exception: continue`, for an exception.                         *)
IterationEnd(fate) ==
    IF fate = "entry" THEN "append" ELSE "continue"

Failed == 0 - 1
CompareReturned == cmp_pos > Len(cmp_req.variables)

CompareInit ==
    /\ \E vs \in SeqsUpTo(VarNames, MaxVars), tmz \in BOOLEAN,
          n \in 0..MaxGroups, g \in BOOLEAN :
         cmp_req = [variables |-> vs, treat_missing_as_zero |-> tmz,
                    n_keys |-> n, group_col_in_df |-> g]
    /\ cmp_pos = 0
    /\ results = <<>>
    /\ cmp_log = <<>>
    /\ SelectIdle /\ CacheIdle /\ ApiIdle /\ RaceIdle /\ GroupIdle /\ FnIdle

(* results = []; `if group_by_col not in df.columns: return results`;      *)
(* `if len(group_keys) < 2: return results`.                               *)
CompareStart ==
    /\ cmp_pos = 0
    /\ cmp_pos' = IF ~cmp_req.group_col_in_df \/ cmp_req.n_keys < 2
                  THEN Len(cmp_req.variables) + 1
                  ELSE 1
    /\ UNCHANGED <<cmp_req, results, cmp_log, selVars, cacheVars, used_before, last, apiVars, raceVars, grpVars, fnVars>>

(* One iteration of the loop, for variables[cmp_pos].                      *)
CompareIterate ==
    /\ cmp_pos >= 1 /\ cmp_pos <= Len(cmp_req.variables)
    /\ LET var == cmp_req.variables[cmp_pos]
       IN  IF var \notin TableColumns
           THEN \* `if var not in df.columns: continue`
                /\ cmp_log' = Append(cmp_log, [variable |-> var, in_df |-> FALSE,
                                               computed |-> FALSE, test |-> "none"])
                /\ cmp_pos' = cmp_pos + 1
                /\ UNCHANGED results
           ELSE \E c \in IterationCases[cmp_req.treat_missing_as_zero, cmp_req.n_keys] :
                /\ cmp_log' = Append(cmp_log, [variable |-> var, in_df |-> TRUE,
                                               computed |-> c.computed, test |-> c.test])
                /\ CASE IterationEnd(c.fate) = "append" ->
                            /\ results' = Append(results, [c.entry EXCEPT !.variable = var])
                            /\ cmp_pos' = cmp_pos + 1
                     [] IterationEnd(c.fate) = "continue" ->
                            /\ UNCHANGED results
                            /\ cmp_pos' = cmp_pos + 1
                     [] OTHER ->
                            /\ UNCHANGED results
                            /\ cmp_pos' = Failed
    /\ UNCHANGED <<cmp_req, selVars, cacheVars, used_before, last, apiVars, raceVars, grpVars, fnVars>>

CompareNext == CompareStart \/ CompareIterate

SpecCompare == CompareInit /\ [][CompareNext]_vars

(* Properties of the loop (SpecCompare)                                    *)

(* The positions of the request whose test was computed and did not fail.  *)
RECURSIVE EntriesDue(_)
EntriesDue(i) ==
    IF i > Len(cmp_log) THEN <<>>
    ELSE (IF cmp_log[i].in_df /\ cmp_log[i].computed /\ cmp_log[i].test = "ok"
          THEN <<cmp_log[i].variable>> ELSE <<>>) \o EntriesDue(i + 1)

-----------------------------------------------------------------------------
(* Properties of compare_groups on one variable (SpecSelect)               *)

SelectDone == sel_out # NoOut
SelectTested == sel_out.fate \in {"entry", "nan", "raised"}

(* The observations of table group k: its numeric cells, plus its missing  *)
(* cells when they are replaced by 0; text cells are never observations.   *)
NumericObsAfterPolicy(k) ==
    LET c == sel_in.groups[k].cells
    IN  c.num + (IF sel_in.treat_missing_as_zero THEN c.missing ELSE 0)

ValidTableGroups == { k \in 1..Len(sel_in.groups) : NumericObsAfterPolicy(k) >= 2 }

(* The table of section 4.5, by test name.                                 *)
TableTest(n, normal, homogeneous) ==
    CASE n = 2 /\ normal /\ homogeneous -> "t-test independente"
      [] n = 2 /\ normal /\ ~homogeneous -> "Welch's t-test"
      [] n = 2 /\ ~normal -> "Mann-Whitney U"
      [] n >= 3 /\ normal /\ homogeneous -> "ANOVA one-way"
      [] n >= 3 /\ normal /\ ~homogeneous -> "Welch's ANOVA"
      [] n >= 3 /\ ~normal -> "Kruskal-Wallis"
      [] OTHER -> "no test"

TableEffect(n) == IF n = 2 THEN "d de Cohen" ELSE IF n >= 3 THEN "eta2" ELSE "no effect size"

EvaluatedGroups ==
    { k \in ValidTableGroups :
        /\ NumericObsAfterPolicy(k) >= 8
        /\ sel_in.groups[k].norm \in {"pass", "fail"} }

PassingGroups == { k \in EvaluatedGroups : sel_in.groups[k].norm = "pass" }

(* C2: when at least one group was evaluated, is_normal is true exactly    *)
(* when at least half of the evaluated groups pass; groups under 8         *)
(* observations and groups whose test raised are not in the total.         *)
C2_NormalIffHalfOfEvaluated ==
    (SelectDone /\ SelectTested /\ EvaluatedGroups # {}) =>
        (sel_out.is_normal <=>
            2 * Cardinality(PassingGroups) >= Cardinality(EvaluatedGroups))

(* C3: a group is kept only with at least 2 numeric observations after the *)
(* missing-value policy; the kept groups are exactly those, the 2-group or *)
(* k-group branch is taken on their number, and with fewer than 2 of them  *)
(* the variable gets no entry and nothing is raised.                       *)
C3_ValidGroupsDecide ==
    (SelectDone /\ Len(sel_in.groups) >= 2) =>
        /\ sel_out.n_groups = Cardinality(ValidTableGroups)
        /\ \A i \in 1..Len(sel_out.group_data) : sel_out.group_data[i] >= 2
        /\ (Cardinality(ValidTableGroups) < 2) =>
              (sel_out.fate = "few" /\ sel_out.entry = NoEntry)
        /\ (Cardinality(ValidTableGroups) = 2) =>
              (SelectTested /\ sel_out.picked.routine \in {"ttest_ind", "mannwhitneyu"})
        /\ (Cardinality(ValidTableGroups) >= 3) =>
              (SelectTested /\ sel_out.picked.routine \in {"f_oneway", "kruskal"})

(* C3 witness: a table of three groups of which one is dropped, so the     *)
(* 2-group branch runs and returns an entry.                               *)
C3_Witness ==
    /\ SelectDone /\ sel_out.fate = "entry"
    /\ Len(sel_in.groups) = 3
    /\ Cardinality(ValidTableGroups) = 2
    /\ sel_out.picked.routine = "ttest_ind"

(* C4: when every valid group has fewer than 8 observations no group casts *)
(* a normality vote, is_normal is false and the non-parametric test is     *)
(* picked, whatever Levene's test says.                                    *)
C4_SmallGroupsNonParametric ==
    (/\ SelectDone /\ Cardinality(ValidTableGroups) >= 2
     /\ \A k \in ValidTableGroups : NumericObsAfterPolicy(k) < 8) =>
        /\ SelectTested
        /\ sel_out.normal_count = 0
        /\ ~sel_out.is_normal
        /\ sel_out.picked.test_name =
             (IF Cardinality(ValidTableGroups) = 2 THEN "Mann-Whitney U" ELSE "Kruskal-Wallis")

(* C4 witness: three valid groups under 8 observations, Levene passing,    *)
(* Kruskal-Wallis returned.                                                *)
C4_Witness ==
    /\ SelectDone /\ sel_out.fate = "entry"
    /\ Cardinality(ValidTableGroups) = 3
    /\ \A k \in ValidTableGroups : NumericObsAfterPolicy(k) < 8
    /\ sel_in.levene = "pass"
    /\ sel_out.entry.test_name = "Kruskal-Wallis"

(***************************************************************************)
(* data_service: the cache of loaded tables.  The operators below are the  *)
(* two functions run from their first line to their last with nothing in   *)
(* between; SpecLru calls them one at a time.                              *)
(***************************************************************************)
max_cache_size == 5
ExtraIds == 1
DatasetIds == 1..(max_cache_size + ExtraIds)
None == 0

LoadedTable(dataset_id) == [dataset_id |-> dataset_id]
NoTable == [dataset_id |-> None]

Range(s) == {s[i] : i \in DOMAIN s}
DictDel(cache, id) == [k \in (DOMAIN cache) \ {id} |-> cache[k]]
DictSet(cache, id, df) ==
    [k \in (DOMAIN cache) \cup {id} |-> IF k = id THEN df ELSE cache[k]]

(* list.remove: drops the first occurrence; the caller checks membership.  *)
list_remove(order, x) ==
    LET i == CHOOSE i \in DOMAIN order :
                 order[i] = x /\ \A j \in 1..(i - 1) : order[j] # x
    IN SubSeq(order, 1, i - 1) \o SubSeq(order, i + 1, Len(order))

(* The hit branch that returns the table without touching the order.       *)
cache_hit_KeepsPlace(cache, order, dataset_id) ==
    [cache |-> cache, order |-> order, returned |-> cache[dataset_id],
     raised |-> "none", hit |-> TRUE, evicted |-> <<>>]

(* Lines 192-196: the id moves to the end of the order.                    *)
cache_hit(cache, order, dataset_id) ==
    IF dataset_id \in Range(order)
    THEN [cache |-> cache,
          order |-> Append(list_remove(order, dataset_id), dataset_id),
          returned |-> cache[dataset_id],
          raised |-> "none", hit |-> TRUE, evicted |-> <<>>]
    ELSE [cache |-> cache, order |-> order, returned |-> NoTable,
          raised |-> "ValueError", hit |-> TRUE, evicted |-> <<>>]

(* Lines 206-208: pop the head of the order and delete its table until the *)
(* order fits.                                                             *)
RECURSIVE evict_oldest(_, _, _)
evict_oldest(cache, order, evicted) ==
    IF Len(order) > max_cache_size
    THEN LET oldest_id == Head(order) IN
         IF oldest_id \in DOMAIN cache
         THEN evict_oldest(DictDel(cache, oldest_id), Tail(order),
                           Append(evicted, oldest_id))
         ELSE [cache |-> cache, order |-> Tail(order), evicted |-> evicted,
               raised |-> "KeyError"]
    ELSE [cache |-> cache, order |-> order, evicted |-> evicted,
          raised |-> "none"]

(* The miss branch that puts the id in the order before the table is read. *)
cache_miss_AppendsBeforeLoad(cache, order, dataset_id, load_ok) ==
    IF ~load_ok
    THEN [cache |-> cache, order |-> Append(order, dataset_id), returned |-> NoTable,
          raised |-> "load", hit |-> FALSE, evicted |-> <<>>]
    ELSE LET df == LoadedTable(dataset_id)
             e == evict_oldest(DictSet(cache, dataset_id, df),
                               Append(order, dataset_id), <<>>)
         IN [cache |-> e.cache, order |-> e.order,
             returned |-> IF e.raised = "none" THEN df ELSE NoTable,
             raised |-> e.raised, hit |-> FALSE, evicted |-> e.evicted]

(* Lines 199-210: load, insert, append, evict.                             *)
cache_miss(cache, order, dataset_id, load_ok) ==
    IF ~load_ok
    THEN [cache |-> cache, order |-> order, returned |-> NoTable,
          raised |-> "load", hit |-> FALSE, evicted |-> <<>>]
    ELSE LET df == LoadedTable(dataset_id)
             e == evict_oldest(DictSet(cache, dataset_id, df),
                               Append(order, dataset_id), <<>>)
         IN [cache |-> e.cache, order |-> e.order,
             returned |-> IF e.raised = "none" THEN df ELSE NoTable,
             raised |-> e.raised, hit |-> FALSE, evicted |-> e.evicted]

get_cached_dataframe(cache, order, dataset_id, load_ok) ==
    IF dataset_id \in DOMAIN cache
    THEN cache_hit(cache, order, dataset_id)
    ELSE cache_miss(cache, order, dataset_id, load_ok)

(* clear_cache that forgets nothing.                                       *)
clear_cache_KeepsEntry(cache, order, dataset_id) ==
    [cache |-> cache, order |-> order, raised |-> "none"]

(* Lines 213-222.                                                          *)
clear_cache(cache, order, dataset_id) ==
    IF dataset_id = None
    THEN [cache |-> <<>>, order |-> <<>>, raised |-> "none"]
    ELSE IF dataset_id \in DOMAIN cache
    THEN IF dataset_id \in Range(order)
         THEN [cache |-> DictDel(cache, dataset_id),
               order |-> list_remove(order, dataset_id), raised |-> "none"]
         ELSE [cache |-> DictDel(cache, dataset_id), order |-> order,
               raised |-> "ValueError"]
    ELSE [cache |-> cache, order |-> order, raised |-> "none"]

(* The ghost order of last requests among the cached ids.                  *)
Touched(rel, cached, id) ==
    {p \in rel : p[1] \in cached \ {id} /\ p[2] \in cached \ {id}}
        \cup {<<a, id>> : a \in cached \ {id}}
Dropped(rel, cached) == {p \in rel : p[1] \in cached /\ p[2] \in cached}
LeastRecent(rel, cached) ==
    {a \in cached : \A b \in cached \ {a} : <<a, b>> \in rel}

(***************************************************************************)
(* SpecLru: calls of the two functions one at a time.                      *)
(***************************************************************************)
NoCall == [op |-> "none"]

LruInit ==
    /\ df_cache = <<>>
    /\ cache_order = <<>>
    /\ used_before = {}
    /\ last = NoCall
    /\ SelectIdle /\ CompareIdle /\ ApiIdle /\ RaceIdle /\ GroupIdle /\ FnIdle

LruGet ==
    \E dataset_id \in DatasetIds, load_ok \in BOOLEAN :
        LET r == get_cached_dataframe(df_cache, cache_order, dataset_id, load_ok) IN
        /\ df_cache' = r.cache
        /\ cache_order' = r.order
        /\ used_before' =
               IF r.raised = "none"
               THEN Touched(used_before, DOMAIN r.cache, dataset_id)
               ELSE Dropped(used_before, DOMAIN r.cache)
        /\ last' = [op |-> "get_cached_dataframe", id |-> dataset_id,
                    hit |-> r.hit, raised |-> r.raised,
                    returned |-> r.returned, evicted |-> r.evicted,
                    size_before |-> Cardinality(DOMAIN df_cache),
                    oldest_before |-> LeastRecent(used_before, DOMAIN df_cache)]
        /\ UNCHANGED <<selVars, cmpVars, apiVars, raceVars, grpVars, fnVars>>

LruClear ==
    \E dataset_id \in DatasetIds \cup {None} :
        LET r == clear_cache(df_cache, cache_order, dataset_id) IN
        /\ df_cache' = r.cache
        /\ cache_order' = r.order
        /\ used_before' = Dropped(used_before, DOMAIN r.cache)
        /\ last' = [op |-> "clear_cache", id |-> dataset_id, raised |-> r.raised,
                    was_cached |-> dataset_id \in DOMAIN df_cache]
        /\ UNCHANGED <<selVars, cmpVars, apiVars, raceVars, grpVars, fnVars>>

LruNext == LruGet \/ LruClear

SpecLru == LruInit /\ [][LruNext]_vars

(* C6: one call at a time, the cache never holds more than 5 tables; a     *)
(* call that returns leaves the requested id cached, returned and most     *)
(* recently used; a hit evicts nothing; a miss evicts nothing while there  *)
(* is room and, when 5 tables were cached, evicts exactly the one table    *)
(* whose last request is the oldest; the recency list is always in the     *)
(* order of the last requests; no call raises except for a failed load.    *)
C6_LruBoundAndEviction ==
    /\ Cardinality(DOMAIN df_cache) <= 5
    /\ Len(cache_order) <= 5
    /\ (last.op = "get_cached_dataframe" /\ last.raised = "none") =>
        /\ last.id \in DOMAIN df_cache
        /\ last.returned = df_cache[last.id]
        /\ cache_order[Len(cache_order)] = last.id
        /\ last.hit => last.evicted = <<>>
        /\ (~last.hit /\ last.size_before < 5) => last.evicted = <<>>
        /\ (~last.hit /\ last.size_before = 5) =>
               /\ Len(last.evicted) = 1
               /\ last.oldest_before = {last.evicted[1]}
    /\ \A i, j \in DOMAIN cache_order :
           i < j => <<cache_order[i], cache_order[j]>> \in used_before
    /\ last.op = "get_cached_dataframe" => last.raised \in {"none", "load"}
    /\ last.op = "clear_cache" => last.raised = "none"

C6_Witness ==
    /\ last.op = "get_cached_dataframe"
    /\ last.raised = "none"
    /\ ~last.hit
    /\ last.size_before = 5
    /\ Len(last.evicted) = 1
    /\ cache_order[1] < last.evicted[1]
    /\ \E i \in 1..4 : cache_order[i] > cache_order[i + 1]

OrderMatchesCache ==
    /\ \A i, j \in DOMAIN cache_order : i # j => cache_order[i] # cache_order[j]
    /\ Range(cache_order) = DOMAIN df_cache
Without(order, id) == SelectSeq(order, LAMBDA x : x # id)
ClearedOne ==
    /\ last'.op = "clear_cache"
    /\ last'.id # None
    /\ last'.id \in DOMAIN df_cache
FailedLoad == last'.op = "get_cached_dataframe" /\ last'.raised = "load"
ClearedAbsent ==
    /\ last'.op = "clear_cache"
    /\ last'.id # None
    /\ last'.id \notin DOMAIN df_cache

(* C24: one call at a time, the recency list has no id twice and holds     *)
(* exactly the cached ids; a failed load changes neither the cache nor the *)
(* list; clear_cache(id) removes that id only and keeps the others in      *)
(* their order; clear_cache of an id that is not cached changes nothing.   *)
C24_OrderAndCacheAgree ==
    /\ []OrderMatchesCache
    /\ [][/\ FailedLoad => UNCHANGED <<df_cache, cache_order>>
          /\ ClearedAbsent => UNCHANGED <<df_cache, cache_order>>
          /\ ClearedOne =>
                /\ DOMAIN df_cache' = DOMAIN df_cache \ {last'.id}
                /\ \A id \in DOMAIN df_cache' : df_cache'[id] = df_cache[id]
                /\ cache_order' = Without(cache_order, last'.id)]_vars

C24_Witness ==
    /\ last.op = "clear_cache"
    /\ last.was_cached
    /\ last.id = 2
    /\ cache_order = <<3, 1, 4>>

(***************************************************************************)
(* SpecRace: the same two functions called from request threads.  The      *)
(* handlers are plain def functions, which the server runs in a thread     *)
(* pool, so calls overlap and every statement of the functions is a step   *)
(* of its own.                                                             *)
(***************************************************************************)
NumThreads == 2
MaxCalls == 3
Threads == 1..NumThreads
RaceRequestIds == {1, max_cache_size + 1}

IdleThread == [pc |-> "idle", id |-> None, oldest |-> None]
GetLines == {"g_check", "g_remove", "g_append_hit", "g_return_hit", "g_load",
             "g_insert", "g_append", "g_while", "g_pop", "g_del"}
InFlight(t) == thr[t].pc # "idle"
Quiescent == \A t \in Threads : ~InFlight(t)

At(t, line) == [thr EXCEPT ![t].pc = line]
Ended(t) == [thr EXCEPT ![t] = IdleThread]
GetEnded(t, raised, returned) ==
    [op |-> "get_cached_dataframe", id |-> thr[t].id, raised |-> raised,
     returned |-> returned]
ClearEnded(t, raised) ==
    [op |-> "clear_cache", id |-> thr[t].id, raised |-> raised]

(* The cache as a run of one-at-a-time calls can leave it: empty, or full. *)
RaceInit ==
    /\ \E n \in {0, max_cache_size} :
           /\ cache_order = [i \in 1..n |-> i]
           /\ df_cache = [i \in 1..n |-> LoadedTable(i)]
    /\ used_before = {}
    /\ last = NoCall
    /\ thr = [t \in Threads |-> IdleThread]
    /\ calls = 0
    /\ same_id_gets_only = TRUE
    /\ SelectIdle /\ CompareIdle /\ ApiIdle /\ GroupIdle /\ FnIdle

RaceCallGet ==
    \E t \in Threads, dataset_id \in RaceRequestIds :
        /\ ~InFlight(t)
        /\ calls < MaxCalls
        /\ thr' = [thr EXCEPT ![t] = [pc |-> "g_check", id |-> dataset_id,
                                      oldest |-> None]]
        /\ calls' = calls + 1
        /\ same_id_gets_only' =
               (same_id_gets_only /\
                \A u \in Threads \ {t} :
                    InFlight(u) => (thr[u].pc \in GetLines /\ thr[u].id = dataset_id))
        /\ UNCHANGED <<selVars, cmpVars, cacheVars, used_before, last, apiVars, grpVars, fnVars>>

RaceCallClear ==
    \E t \in Threads, dataset_id \in RaceRequestIds :
        /\ ~InFlight(t)
        /\ calls < MaxCalls
        /\ thr' = [thr EXCEPT ![t] = [pc |-> "c_check", id |-> dataset_id,
                                      oldest |-> None]]
        /\ calls' = calls + 1
        /\ same_id_gets_only' =
               (same_id_gets_only /\ \A u \in Threads \ {t} : ~InFlight(u))
        /\ UNCHANGED <<selVars, cmpVars, cacheVars, used_before, last, apiVars, grpVars, fnVars>>

(* Line 192: if dataset_id in _df_cache                                    *)
GetCheck ==
    \E t \in Threads :
        /\ thr[t].pc = "g_check"
        /\ thr' = At(t, IF thr[t].id \in DOMAIN df_cache THEN "g_remove" ELSE "g_load")
        /\ UNCHANGED <<selVars, cmpVars, cacheVars, used_before, last, apiVars,
                       calls, same_id_gets_only, grpVars, fnVars>>

(* Line 194: _cache_order.remove(dataset_id)                               *)
GetRemove ==
    \E t \in Threads :
        /\ thr[t].pc = "g_remove"
        /\ IF thr[t].id \in Range(cache_order)
           THEN /\ cache_order' = list_remove(cache_order, thr[t].id)
                /\ thr' = At(t, "g_append_hit")
                /\ UNCHANGED last
           ELSE /\ thr' = Ended(t)
                /\ last' = GetEnded(t, "ValueError", NoTable)
                /\ UNCHANGED cache_order
        /\ UNCHANGED <<selVars, cmpVars, df_cache, used_before, apiVars,
                       calls, same_id_gets_only, grpVars, fnVars>>

(* Line 195: _cache_order.append(dataset_id)                               *)
GetAppendHit ==
    \E t \in Threads :
        /\ thr[t].pc = "g_append_hit"
        /\ cache_order' = Append(cache_order, thr[t].id)
        /\ thr' = At(t, "g_return_hit")
        /\ UNCHANGED <<selVars, cmpVars, df_cache, used_before, last, apiVars,
                       calls, same_id_gets_only, grpVars, fnVars>>

(* Line 196: return _df_cache[dataset_id]                                  *)
GetReturnHit ==
    \E t \in Threads :
        /\ thr[t].pc = "g_return_hit"
        /\ thr' = Ended(t)
        /\ last' = IF thr[t].id \in DOMAIN df_cache
                   THEN GetEnded(t, "none", df_cache[thr[t].id])
                   ELSE GetEnded(t, "KeyError", NoTable)
        /\ UNCHANGED <<selVars, cmpVars, cacheVars, used_before, apiVars,
                       calls, same_id_gets_only, grpVars, fnVars>>

(* Line 199: df = load_parquet(parquet_path)                               *)
GetLoad ==
    \E t \in Threads, load_ok \in BOOLEAN :
        /\ thr[t].pc = "g_load"
        /\ IF load_ok
           THEN thr' = At(t, "g_insert") /\ UNCHANGED last
           ELSE thr' = Ended(t) /\ last' = GetEnded(t, "load", NoTable)
        /\ UNCHANGED <<selVars, cmpVars, cacheVars, used_before, apiVars,
                       calls, same_id_gets_only, grpVars, fnVars>>

(* Line 202: _df_cache[dataset_id] = df                                    *)
GetInsert ==
    \E t \in Threads :
        /\ thr[t].pc = "g_insert"
        /\ df_cache' = DictSet(df_cache, thr[t].id, LoadedTable(thr[t].id))
        /\ thr' = At(t, "g_append")
        /\ UNCHANGED <<selVars, cmpVars, cache_order, used_before, last, apiVars,
                       calls, same_id_gets_only, grpVars, fnVars>>

(* Line 203: _cache_order.append(dataset_id)                               *)
GetAppend ==
    \E t \in Threads :
        /\ thr[t].pc = "g_append"
        /\ cache_order' = Append(cache_order, thr[t].id)
        /\ thr' = At(t, "g_while")
        /\ UNCHANGED <<selVars, cmpVars, df_cache, used_before, last, apiVars,
                       calls, same_id_gets_only, grpVars, fnVars>>

(* Line 206: while len(_cache_order) > _max_cache_size; line 210: return   *)
GetWhile ==
    \E t \in Threads :
        /\ thr[t].pc = "g_while"
        /\ IF Len(cache_order) > max_cache_size
           THEN thr' = At(t, "g_pop") /\ UNCHANGED last
           ELSE /\ thr' = Ended(t)
                /\ last' = GetEnded(t, "none", LoadedTable(thr[t].id))
        /\ UNCHANGED <<selVars, cmpVars, cacheVars, used_before, apiVars,
                       calls, same_id_gets_only, grpVars, fnVars>>

(* Line 207: oldest_id = _cache_order.pop(0)                               *)
GetPop ==
    \E t \in Threads :
        /\ thr[t].pc = "g_pop"
        /\ IF cache_order # <<>>
           THEN /\ thr' = [thr EXCEPT ![t].pc = "g_del", ![t].oldest = Head(cache_order)]
                /\ cache_order' = Tail(cache_order)
                /\ UNCHANGED last
           ELSE /\ thr' = Ended(t)
                /\ last' = GetEnded(t, "IndexError", NoTable)
                /\ UNCHANGED cache_order
        /\ UNCHANGED <<selVars, cmpVars, df_cache, used_before, apiVars,
                       calls, same_id_gets_only, grpVars, fnVars>>

(* Line 208: del _df_cache[oldest_id]                                      *)
GetDel ==
    \E t \in Threads :
        /\ thr[t].pc = "g_del"
        /\ IF thr[t].oldest \in DOMAIN df_cache
           THEN /\ df_cache' = DictDel(df_cache, thr[t].oldest)
                /\ thr' = [thr EXCEPT ![t].pc = "g_while", ![t].oldest = None]
                /\ UNCHANGED last
           ELSE /\ thr' = Ended(t)
                /\ last' = GetEnded(t, "KeyError", NoTable)
                /\ UNCHANGED df_cache
        /\ UNCHANGED <<selVars, cmpVars, cache_order, used_before, apiVars,
                       calls, same_id_gets_only, grpVars, fnVars>>

(* Line 220: elif dataset_id in _df_cache                                  *)
ClearCheck ==
    \E t \in Threads :
        /\ thr[t].pc = "c_check"
        /\ IF thr[t].id \in DOMAIN df_cache
           THEN thr' = At(t, "c_del") /\ UNCHANGED last
           ELSE thr' = Ended(t) /\ last' = ClearEnded(t, "none")
        /\ UNCHANGED <<selVars, cmpVars, cacheVars, used_before, apiVars,
                       calls, same_id_gets_only, grpVars, fnVars>>

(* Line 221: del _df_cache[dataset_id]                                     *)
ClearDel ==
    \E t \in Threads :
        /\ thr[t].pc = "c_del"
        /\ IF thr[t].id \in DOMAIN df_cache
           THEN /\ df_cache' = DictDel(df_cache, thr[t].id)
                /\ thr' = At(t, "c_remove")
                /\ UNCHANGED last
           ELSE /\ thr' = Ended(t)
                /\ last' = ClearEnded(t, "KeyError")
                /\ UNCHANGED df_cache
        /\ UNCHANGED <<selVars, cmpVars, cache_order, used_before, apiVars,
                       calls, same_id_gets_only, grpVars, fnVars>>

(* Line 222: _cache_order.remove(dataset_id)                               *)
ClearRemove ==
    \E t \in Threads :
        /\ thr[t].pc = "c_remove"
        /\ thr' = Ended(t)
        /\ IF thr[t].id \in Range(cache_order)
           THEN /\ cache_order' = list_remove(cache_order, thr[t].id)
                /\ last' = ClearEnded(t, "none")
           ELSE /\ last' = ClearEnded(t, "ValueError")
                /\ UNCHANGED cache_order
        /\ UNCHANGED <<selVars, cmpVars, df_cache, used_before, apiVars,
                       calls, same_id_gets_only, grpVars, fnVars>>

RaceNext ==
    \/ RaceCallGet \/ RaceCallClear
    \/ GetCheck \/ GetRemove \/ GetAppendHit \/ GetReturnHit
    \/ GetLoad \/ GetInsert \/ GetAppend \/ GetWhile \/ GetPop \/ GetDel
    \/ ClearCheck \/ ClearDel \/ ClearRemove

SpecRace == RaceInit /\ [][RaceNext]_vars

(* C7: as long as the only calls that ever overlapped were                 *)
(* get_cached_dataframe calls for one and the same id, every call that     *)
(* ends has raised nothing but a failed load, a get that returns returns   *)
(* the table of its id, and once no call is in flight every id of the      *)
(* recency list has a cached table.                                        *)
C7_SameIdRaceIsBenign ==
    same_id_gets_only =>
        /\ last.op # "none" => last.raised \in {"none", "load"}
        /\ (last.op = "get_cached_dataframe" /\ last.raised = "none") =>
               last.returned = LoadedTable(last.id)
        /\ Quiescent => Range(cache_order) \subseteq DOMAIN df_cache

(* C25: under any interleaving of get_cached_dataframe and clear_cache     *)
(* calls for any ids, no call raises (a table file that cannot be read     *)
(* aside): not a hit whose id is evicted or cleared between the membership *)
(* check and the recency update, not an eviction or a clear_cache of an id *)
(* another call has just removed.                                          *)
C25_NoCallRaises ==
    last.op # "none" => last.raised \in {"none", "load"}

C25_HitRaisesAfterClear ==
    /\ last.op = "get_cached_dataframe"
    /\ last.raised = "ValueError"
    /\ last.id \notin DOMAIN df_cache
    /\ calls = 2

C25_ClearRaises ==
    /\ last.op = "clear_cache"
    /\ last.raised \in {"KeyError", "ValueError"}

C25_EvictionRaises ==
    /\ last.op = "get_cached_dataframe"
    /\ last.raised \in {"KeyError", "IndexError"}

(***************************************************************************)
(* SpecApi: the HTTP handlers that read or change a dataset, one request   *)
(* at a time.  A row of the datasets table is kept as the var_type of its  *)
(* column "x"; whether the parquet file of a row can be read is an input   *)
(* of each request.                                                        *)
(***************************************************************************)
MaxDatasets == 2
ApiIds == 1..MaxDatasets
NoRow == [var_type |-> "-"]
VarTypes == {"categorical", "discrete", "continuous"}
UpdateInputs ==
    {[col_key |-> "x", var_type |-> v] : v \in VarTypes \cup {"bogus"}}
        \cup {[col_key |-> "ghost", var_type |-> v] : v \in {"discrete", "bogus"}}
UploadOutcomes == {"rejected", "save_failed", "ok"}

HasRow(id) == db[id] # NoRow
Deleted(id) == id < next_id /\ ~HasRow(id)

ApiInit ==
    /\ db = [id \in ApiIds |-> NoRow]
    /\ next_id = 1
    /\ df_cache = <<>>
    /\ cache_order = <<>>
    /\ used_before = {}
    /\ last = NoCall
    /\ SelectIdle /\ CompareIdle /\ RaceIdle /\ GroupIdle /\ FnIdle

(* upload_dataset: it fails before the row is added, or the row is         *)
(* committed under a fresh id and the parquet file is or is not written.   *)
ApiUpload ==
    \E outcome \in UploadOutcomes, var_type \in VarTypes :
        /\ IF outcome = "rejected"
           THEN /\ UNCHANGED <<db, next_id>>
                /\ last' = [op |-> "upload_dataset", id |-> None,
                            status |-> outcome, was_cached |-> FALSE]
           ELSE /\ next_id <= MaxDatasets
                /\ db' = [db EXCEPT ![next_id] = [var_type |-> var_type]]
                /\ next_id' = next_id + 1
                /\ last' = [op |-> "upload_dataset", id |-> next_id,
                            status |-> outcome, was_cached |-> FALSE]
        /\ UNCHANGED <<selVars, cmpVars, cacheVars, used_before, raceVars, grpVars, fnVars>>

(* _load_dataset, the first step of every statistics, correlation, data    *)
(* and model request.                                                      *)
ApiRequest ==
    \E dataset_id \in ApiIds, load_ok \in BOOLEAN :
        IF ~HasRow(dataset_id)
        THEN /\ last' = [op |-> "request", id |-> dataset_id,
                         status |-> "not_found",
                         was_cached |-> dataset_id \in DOMAIN df_cache]
             /\ UNCHANGED <<selVars, cmpVars, cacheVars, used_before, apiVars, raceVars, grpVars, fnVars>>
        ELSE LET r == get_cached_dataframe(df_cache, cache_order, dataset_id,
                                           load_ok) IN
             /\ df_cache' = r.cache
             /\ cache_order' = r.order
             /\ last' = [op |-> "request", id |-> dataset_id,
                         status |-> IF r.raised = "none" THEN "ok" ELSE "load_error",
                         was_cached |-> dataset_id \in DOMAIN df_cache]
             /\ UNCHANGED <<selVars, cmpVars, used_before, apiVars, raceVars, grpVars, fnVars>>

(* update_column_type.  The handler edits the dicts of the loaded list in  *)
(* place and assigns a shallow copy, so whether the ORM sees a change and  *)
(* writes it is left open; the cache is cleared either way.                *)
ApiUpdateColumnType ==
    \E dataset_id \in ApiIds, update \in UpdateInputs :
        LET status == IF ~HasRow(dataset_id) THEN "not_found"
                      ELSE IF update.var_type \notin VarTypes THEN "bad_type"
                      ELSE IF update.col_key # "x" THEN "no_column"
                      ELSE "ok"
            c == clear_cache(df_cache, cache_order, dataset_id)
        IN
        /\ last' = [op |-> "update_column_type", id |-> dataset_id,
                    status |-> status,
                    was_cached |-> dataset_id \in DOMAIN df_cache]
        /\ IF status = "ok"
           THEN /\ db' \in {[db EXCEPT ![dataset_id].var_type = update.var_type], db}
                /\ df_cache' = c.cache
                /\ cache_order' = c.order
           ELSE UNCHANGED <<db, df_cache, cache_order>>
        /\ UNCHANGED <<selVars, cmpVars, used_before, next_id, raceVars, grpVars, fnVars>>

(* delete_dataset: the parquet file, the cache entry, then the row.        *)
ApiDeleteDataset ==
    \E dataset_id \in ApiIds :
        LET c == clear_cache(df_cache, cache_order, dataset_id) IN
        /\ last' = [op |-> "delete_dataset", id |-> dataset_id,
                    status |-> IF HasRow(dataset_id) THEN "ok" ELSE "not_found",
                    was_cached |-> dataset_id \in DOMAIN df_cache]
        /\ IF HasRow(dataset_id)
           THEN /\ db' = [db EXCEPT ![dataset_id] = NoRow]
                /\ df_cache' = c.cache
                /\ cache_order' = c.order
           ELSE UNCHANGED <<db, df_cache, cache_order>>
        /\ UNCHANGED <<selVars, cmpVars, used_before, next_id, raceVars, grpVars, fnVars>>

ApiNext == ApiUpload \/ ApiRequest \/ ApiUpdateColumnType \/ ApiDeleteDataset

SpecApi == ApiInit /\ [][ApiNext]_vars

Invalidating ==
    /\ last.op \in {"update_column_type", "delete_dataset"}
    /\ last.status = "ok"

MaxStrLen == 3
MaxRows == 2
Alphabet == {"a", " "}
Whitespace == {" ", "\t", "\n"}
Strings == SeqsUpTo(Alphabet, MaxStrLen)

Missing == [kind |-> "missing"]
Text(chars) == [kind |-> "text", chars |-> chars]
Number(n) == [kind |-> "number", n |-> n]
Date(d) == [kind |-> "date", d |-> d]

ColumnKinds == {"text", "number", "date"}
KeyValues(kind) ==
    {Missing} \cup
    (CASE kind = "text" -> {Text(c) : c \in Strings}
       [] kind = "number" -> {Number(n) : n \in {1, 2}}
       [] kind = "date" -> {Date(d) : d \in {1, 2}})

(* str.split() without arguments: the words between runs of whitespace.    *)
RECURSIVE str_split(_, _)
str_split(chars, word) ==
    IF chars = <<>>
    THEN IF word = <<>> THEN <<>> ELSE <<word>>
    ELSE IF Head(chars) \in Whitespace
    THEN IF word = <<>>
         THEN str_split(Tail(chars), <<>>)
         ELSE <<word>> \o str_split(Tail(chars), <<>>)
    ELSE str_split(Tail(chars), Append(word, Head(chars)))

(* " ".join(words)                                                         *)
RECURSIVE str_join(_)
str_join(words) ==
    IF words = <<>> THEN <<>>
    ELSE IF Len(words) = 1 THEN words[1]
    ELSE words[1] \o <<" ">> \o str_join(Tail(words))

(* The normalization that keeps an empty text as a text.                   *)
normalize_group_value_KeepsEmpty(value) ==
    IF value.kind = "text"
    THEN Text(str_join(str_split(value.chars, <<>>)))
    ELSE value

(* Lines 30-40.                                                            *)
normalize_group_value(value) ==
    IF value.kind = "missing" THEN value
    ELSE IF value.kind = "text"
    THEN LET cleaned == str_join(str_split(value.chars, <<>>)) IN
         IF cleaned # <<>> THEN Text(cleaned) ELSE Missing
    ELSE value

(* Lines 43-62: only a column of object, string or categorical dtype is    *)
(* mapped; a column of numbers or of dates is not.                         *)
normalize_group_columns(column, kind) ==
    IF kind = "text"
    THEN [i \in DOMAIN column |-> normalize_group_value(column[i])]
    ELSE column

(* str(group_vals): a number of a column with a missing entry is a float.  *)
Digit(n) == IF n = 1 THEN "1" ELSE "2"
str(value, is_float) ==
    CASE value.kind = "text" -> value.chars
      [] value.kind = "number" ->
             IF is_float THEN <<Digit(value.n), ".", "0">> ELSE <<Digit(value.n)>>
      [] value.kind = "date" -> <<"2020-01-0", Digit(value.d), " 00:00:00">>

CharCode(c) == IF c = " " THEN 32 ELSE IF c = "\t" THEN 9 ELSE 97
RECURSIVE LexLess(_, _)
LexLess(s, t) ==
    IF s = <<>> THEN t # <<>>
    ELSE IF t = <<>> THEN FALSE
    ELSE IF Head(s) = Head(t) THEN LexLess(Tail(s), Tail(t))
    ELSE CharCode(Head(s)) < CharCode(Head(t))
KeyLess(a, b) ==
    CASE a.kind = "text" -> LexLess(a.chars, b.chars)
      [] a.kind = "number" -> a.n < b.n
      [] a.kind = "date" -> a.d < b.d

(* groupby: one group per key that is not missing, in the order of the     *)
(* keys; the rows whose key is missing are in no group (dropna).           *)
RECURSIVE SortedKeys(_)
SortedKeys(keys) ==
    IF keys = {} THEN <<>>
    ELSE LET first == CHOOSE k \in keys : \A o \in keys \ {k} : KeyLess(k, o)
         IN <<first>> \o SortedKeys(keys \ {first})
groupby(column) ==
    LET keys == {column[i] : i \in DOMAIN column} \ {Missing}
        order == SortedKeys(keys)
    IN [j \in DOMAIN order |->
           [group_vals |-> order[j],
            rows |-> {i \in DOMAIN column : column[i] = order[j]}]]

(* list.sort(key=len, reverse=True): stable, largest first.                *)
RECURSIVE SortByCount(_)
SortByCount(groups) ==
    IF groups = <<>> THEN <<>>
    ELSE LET rest == SortByCount(Tail(groups))
             g == Head(groups)
             before == SelectSeq(rest, LAMBDA h :
                           Cardinality(h.rows) > Cardinality(g.rows))
             after == SelectSeq(rest, LAMBDA h :
                           Cardinality(h.rows) <= Cardinality(g.rows))
         IN before \o <<g>> \o after

(* Lines 65-72: the mean of the numeric values of the group's rows, or     *)
(* minus infinity when the variable is no column or no value is numeric.   *)
_safe_group_mean_for_sort(rows, values, variable) ==
    LET numeric == {i \in rows : ~values[i].na /\ ~values[i].text}
        total[s \in SUBSET numeric] ==
            IF s = {} THEN 0
            ELSE LET i == CHOOSE i \in s : TRUE IN values[i].v + total[s \ {i}]
    IN IF variable # "v" \/ numeric = {} THEN [minus_inf |-> TRUE, sum |-> 0, n |-> 1]
       ELSE [minus_inf |-> FALSE, sum |-> total[numeric], n |-> Cardinality(numeric)]
MeanLess(x, y) ==
    IF y.minus_inf THEN FALSE
    ELSE IF x.minus_inf THEN TRUE
    ELSE x.sum * y.n < y.sum * x.n

(* list.sort(key=mean) and list.sort(key=mean, reverse=True): stable, so   *)
(* groups of equal mean stay in the order they had.                        *)
RECURSIVE SortByMean(_, _, _, _)
SortByMean(groups, values, variable, reverse) ==
    IF groups = <<>> THEN <<>>
    ELSE LET rest == SortByMean(Tail(groups), values, variable, reverse)
             g == Head(groups)
             key(h) == _safe_group_mean_for_sort(h.rows, values, variable)
             first(h) == IF reverse THEN MeanLess(key(g), key(h))
                         ELSE MeanLess(key(h), key(g))
         IN SelectSeq(rest, first) \o <<g>> \o SelectSeq(rest, LAMBDA h : ~first(h))

(* The limit taken before the sort.                                        *)
sort_and_limit_LimitFirst(groups, values, variables, sort_groups_by, max_groups) ==
    LET limited == SubSeq(groups, 1, IF max_groups < Len(groups)
                                     THEN max_groups ELSE Len(groups))
    IN IF sort_groups_by = "count" THEN SortByCount(limited)
       ELSE IF sort_groups_by = "mean_asc" /\ variables # <<>>
       THEN SortByMean(limited, values, variables[1], FALSE)
       ELSE IF sort_groups_by = "mean_desc" /\ variables # <<>>
       THEN SortByMean(limited, values, variables[1], TRUE)
       ELSE limited

(* Lines 535-545: the sort, then groups[:max_groups] for max_groups >= 0.  *)
sort_and_limit(groups, values, variables, sort_groups_by, max_groups) ==
    LET sorted == IF sort_groups_by = "count" THEN SortByCount(groups)
                  ELSE IF sort_groups_by = "mean_asc" /\ variables # <<>>
                  THEN SortByMean(groups, values, variables[1], FALSE)
                  ELSE IF sort_groups_by = "mean_desc" /\ variables # <<>>
                  THEN SortByMean(groups, values, variables[1], TRUE)
                  ELSE groups
    IN SubSeq(sorted, 1, IF max_groups < Len(sorted) THEN max_groups ELSE Len(sorted))

(* round(len / sample_size * 100, 2), in hundredths of a percent.          *)
pct_of_total(len, sample_size) ==
    IF sample_size > 0 THEN (2 * len * 10000 + sample_size) \div (2 * sample_size)
    ELSE 0

NotGrouped == 0 - 1
GroupByInputs == {<<>>, <<"g">>, <<"ghost", "g">>}
SortInputs == {"none", "count", "mean_asc"}

(* Lines 485-583; column is the grouping column, values the column of the  *)
(* first requested variable.                                               *)
calculate_descriptive_stats(column, kind, values, variables, group_by, sort_groups_by, max_groups) ==
    LET sample_size == Len(column)
        valid_group_by == SelectSeq(group_by, LAMBDA g : g = "g")
    IN
    IF valid_group_by = <<>>
    THEN [fate |-> "done", sample_size |-> sample_size, grouped_df |-> column,
          total_groups |-> NotGrouped, group_summaries |-> <<>>]
    ELSE LET grouped_df == normalize_group_columns(column, kind)
             groups == groupby(grouped_df)
             limited == sort_and_limit(groups, values, variables, sort_groups_by,
                                       max_groups)
             is_float == \E i \in DOMAIN column : column[i] = Missing
         IN [fate |-> "done", sample_size |-> sample_size,
             grouped_df |-> grouped_df,
             total_groups |-> Len(groups),
             group_summaries |->
                 [j \in DOMAIN limited |->
                     [group_vals |-> limited[j].group_vals,
                      group_key |-> str(limited[j].group_vals, is_float),
                      rows |-> limited[j].rows,
                      sample_size |-> Cardinality(limited[j].rows),
                      pct_of_total |-> pct_of_total(Cardinality(limited[j].rows),
                                                    sample_size)]]]

NoTableIn == [kind |-> "none", column |-> <<>>]
NoGroupOut == [fate |-> "pending"]

GroupInit ==
    /\ grp_in = NoTableIn
    /\ grp_out = NoGroupOut
    /\ SelectIdle /\ CompareIdle /\ CacheIdle /\ ApiIdle /\ RaceIdle /\ FnIdle

GroupDraw ==
    /\ grp_in = NoTableIn
    /\ \E kind \in ColumnKinds :
           \E column \in SeqsUpTo(KeyValues(kind), MaxRows) :
               grp_in' = [kind |-> kind, column |-> column]
    /\ UNCHANGED <<grp_out, selVars, cmpVars, cacheVars, used_before, last,
                   apiVars, raceVars, fnVars>>

GroupRun ==
    /\ grp_in # NoTableIn
    /\ grp_out = NoGroupOut
    /\ \E group_by \in GroupByInputs, sort_groups_by \in SortInputs,
          max_groups \in 0..MaxRows :
           grp_out' = calculate_descriptive_stats(
                          grp_in.column, grp_in.kind, <<>>, <<>>, group_by,
                          sort_groups_by, max_groups)
    /\ UNCHANGED <<grp_in, selVars, cmpVars, cacheVars, used_before, last,
                   apiVars, raceVars, fnVars>>

GroupNext == GroupDraw \/ GroupRun

SpecGroup == GroupInit /\ [][GroupNext]_vars

GroupDone == grp_out.fate = "done"
Grouped == GroupDone /\ grp_out.total_groups # NotGrouped
AllGroupsListed == Grouped /\ Len(grp_out.group_summaries) = grp_out.total_groups

RECURSIVE SumOver(_, _)
SumOver(summaries, field) ==
    IF summaries = <<>> THEN 0
    ELSE Head(summaries)[field] + SumOver(Tail(summaries), field)

(* C9: when the request groups by the existing column and every group is   *)
(* listed, each row of the table is in exactly one group, the group sizes  *)
(* add up to sample_size and, for a table with rows, the pct_of_total      *)
(* values add up to 100 within one hundredth per group.                    *)
C9_GroupsCoverTable ==
    AllGroupsListed =>
        LET summaries == grp_out.group_summaries
            pct == SumOver(summaries, "pct_of_total")
        IN /\ \A i \in DOMAIN grp_in.column :
                  Cardinality({j \in DOMAIN summaries : i \in summaries[j].rows}) = 1
           /\ SumOver(summaries, "sample_size") = grp_out.sample_size
           /\ grp_out.sample_size > 0 =>
                  /\ pct >= 10000 - Len(summaries)
                  /\ pct <= 10000 + Len(summaries)

(* The text left when every run of whitespace that has a letter on both    *)
(* sides is replaced by one space and the other whitespace is dropped.     *)
RECURSIVE CollapseFrom(_, _)
CollapseFrom(chars, i) ==
    IF i > Len(chars) THEN <<>>
    ELSE LET ws == chars[i] \in Whitespace
             starts_inner_run ==
                 /\ i > 1
                 /\ chars[i - 1] \notin Whitespace
                 /\ \E j \in (i + 1)..Len(chars) : chars[j] \notin Whitespace
         IN (IF ~ws THEN <<chars[i]>>
             ELSE IF starts_inner_run THEN <<" ">>
             ELSE <<>>) \o CollapseFrom(chars, i + 1)
CollapseTrim(chars) == CollapseFrom(chars, 1)

Pending == [fate |-> "pending"]
FnOnly ==
    /\ SelectIdle /\ CompareIdle /\ CacheIdle /\ ApiIdle /\ RaceIdle /\ GroupIdle
otherVars ==
    <<selVars, cmpVars, cacheVars, used_before, last, apiVars, raceVars, grpVars>>
FnDone == fn_out # Pending

(***************************************************************************)
(* SpecFilter: data_service.apply_filters on a table with the columns "a"  *)
(* and "b".  A row carries its index label; a cell is a category or NaN;   *)
(* the value list of a condition holds categories only.                    *)
(***************************************************************************)
MaxFilterRows == 2
MaxFilters == 2
NaN == "nan"
FilterColumns == {"a", "b"}
FilterRowKinds == [a : {NaN, "x", "y"}, b : {"x", "y"}]
FilterTables ==
    {[i \in DOMAIN cells |-> [idx |-> i, a |-> cells[i].a, b |-> cells[i].b]] :
        cells \in SeqsUpTo(FilterRowKinds, MaxFilterRows)}
FilterConditions == [col_key : {"a", "b", "ghost"}, values : {{}, {"x"}, {"x", "y"}}]

(* apply_filters in which a condition with no values is applied too.       *)
RECURSIVE apply_filters_EmptyRemovesAll(_, _)
apply_filters_EmptyRemovesAll(df, filters) ==
    IF filters = <<>> THEN df
    ELSE LET filter_cond == Head(filters) IN
         apply_filters_EmptyRemovesAll(
             IF filter_cond.col_key \in FilterColumns
             THEN SelectSeq(df, LAMBDA row :
                      row[filter_cond.col_key] \in filter_cond.values)
             ELSE df,
             Tail(filters))

(* Lines 131-139; df is the copy the function works on.                    *)
RECURSIVE apply_filters(_, _)
apply_filters(df, filters) ==
    IF filters = <<>> THEN df
    ELSE LET filter_cond == Head(filters) IN
         apply_filters(
             IF filter_cond.col_key \in FilterColumns /\ filter_cond.values # {}
             THEN SelectSeq(df, LAMBDA row :
                      row[filter_cond.col_key] \in filter_cond.values)
             ELSE df,
             Tail(filters))

FilterInit ==
    /\ fn_in \in [df : FilterTables, filters : SeqsUpTo(FilterConditions, MaxFilters)]
    /\ fn_out = Pending
    /\ FnOnly

FilterRun ==
    /\ fn_out = Pending
    /\ fn_out' = [fate |-> "done",
                  filtered_df |-> apply_filters(fn_in.df, fn_in.filters),
                  df |-> fn_in.df]
    /\ UNCHANGED <<fn_in, otherVars>>

FilterNext == FilterRun

SpecFilter == FilterInit /\ [][FilterNext]_vars

Effective(cond) == cond.col_key \in {"a", "b"} /\ cond.values # {}
PassesAll(row, filters) ==
    \A i \in DOMAIN filters :
        Effective(filters[i]) => row[filters[i].col_key] \in filters[i].values

(* C11: the result holds, in the order of the table, exactly the rows      *)
(* whose value is in the value set of every condition on an existing       *)
(* column with a non-empty value set; a condition on an unknown column or  *)
(* with no values removes nothing; the table passed in is as it was; two   *)
(* conditions together never keep more rows than either alone.             *)
C11_FiltersAreAConjunction ==
    FnDone =>
        LET df == fn_in.df
            filters == fn_in.filters
        IN /\ fn_out.filtered_df = SelectSeq(df, LAMBDA row : PassesAll(row, filters))
           /\ fn_out.df = df
           /\ \A i \in DOMAIN filters :
                  ~Effective(filters[i]) => apply_filters(df, <<filters[i]>>) = df
           /\ \A i, j \in DOMAIN filters :
                  i < j =>
                      LET both == Len(apply_filters(df, <<filters[i], filters[j]>>))
                      IN /\ both <= Len(apply_filters(df, <<filters[i]>>))
                         /\ both <= Len(apply_filters(df, <<filters[j]>>))

C11_Witness ==
    /\ FnDone
    /\ Len(fn_in.df) = 2
    /\ Len(fn_in.filters) = 2
    /\ fn_in.filters[1] = [col_key |-> "a", values |-> {"x"}]
    /\ fn_in.filters[2] = [col_key |-> "b", values |-> {}]
    /\ fn_in.df[1].a = "y"
    /\ fn_in.df[2].a = "x"
    /\ Len(fn_out.filtered_df) = 1
    /\ fn_out.filtered_df[1].idx = 2

(***************************************************************************)
(* SpecVarType: data_service.detect_variable_type.  A column is given by   *)
(* its dtype and by the counts the function reads: the entries that are    *)
(* not missing and the distinct values among them.                         *)
(***************************************************************************)
DISCRETE_THRESHOLD == 30
DISCRETE_RATIO_PERCENT == 2
ObjectDtypes == {"object", "category"}
NumericDtypes == {"int64", "float64", "bool"}
OtherDtypes == {"datetime64[ns]", "string"}
Dtypes == ObjectDtypes \cup NumericDtypes \cup OtherDtypes
NonNullCounts == {0, 1, 2, 30, 31, 32, 1549, 1550, 1551, 1600}
UniqueCounts == {0, 1, 2, 29, 30, 31, 32}
SeriesInputs ==
    {s \in [dtype : Dtypes, non_null : NonNullCounts, unique : UniqueCounts,
            missing : {0, 1}] :
        /\ s.unique <= s.non_null
        /\ s.unique = 0 <=> s.non_null = 0
        /\ s.dtype = "bool" => s.unique <= 2
        /\ s.dtype = "int64" => s.missing = 0}

(* The rule without the ratio test.                                        *)
detect_variable_type_ThresholdOnly(series) ==
    IF series.dtype \in ObjectDtypes THEN "categorical"
    ELSE IF series.dtype \in NumericDtypes
    THEN IF series.non_null = 0 THEN "continuous"
         ELSE IF series.unique <= DISCRETE_THRESHOLD THEN "discrete"
         ELSE "continuous"
    ELSE "categorical"

(* Lines 38-62.  unique_ratio <= 0.02 is unique_count * 100 <= 2 * len.    *)
detect_variable_type(series) ==
    IF series.dtype \in ObjectDtypes THEN "categorical"
    ELSE IF series.dtype \in NumericDtypes
    THEN LET len_non_null == series.non_null
             unique_count == series.unique
         IN IF len_non_null = 0 THEN "continuous"
            ELSE IF \/ unique_count <= DISCRETE_THRESHOLD
                    \/ unique_count * 100 <= DISCRETE_RATIO_PERCENT * len_non_null
            THEN "discrete"
            ELSE "continuous"
    ELSE "categorical"

VarTypeInit ==
    /\ fn_in \in SeriesInputs
    /\ fn_out = Pending
    /\ FnOnly

VarTypeRun ==
    /\ fn_out = Pending
    /\ fn_out' = [fate |-> "done", var_type |-> detect_variable_type(fn_in)]
    /\ UNCHANGED <<fn_in, otherVars>>

VarTypeNext == VarTypeRun

SpecVarType == VarTypeInit /\ [][VarTypeNext]_vars

IsNumericColumn == fn_in.dtype \in {"int64", "float64", "bool"}

MaxNameLen == 2
MaxColumns == 2
NameAlphabet == {"a", "A", "a+acute", " ", "-", "1"}
AsciiChars == {"a", "A", " ", "-", "1", "_"}
WordChars == {"a", "A", "1", "_"}
ColumnNames == SeqsUpTo(NameAlphabet, MaxNameLen) \ {<<>>}
Headers(max_columns) ==
    {h \in SeqsUpTo(ColumnNames, max_columns) :
        \A i, j \in DOMAIN h : i # j => h[i] # h[j]}

(* unicodedata.normalize('NFKD', name): an accented letter becomes the     *)
(* letter followed by the combining accent.                                *)
RECURSIVE nfkd(_)
nfkd(name) ==
    IF name = <<>> THEN <<>>
    ELSE (IF Head(name) = "a+acute" THEN <<"a", "combining acute">>
          ELSE <<Head(name)>>) \o nfkd(Tail(name))

(* .encode('ASCII', 'ignore').decode('ASCII')                              *)
ascii_ignore(chars) == SelectSeq(chars, LAMBDA c : c \in AsciiChars)

(* re.sub(r'[^a-zA-Z0-9_]', '_', ascii_name)                               *)
replace_non_word(chars) ==
    [i \in DOMAIN chars |-> IF chars[i] \in WordChars THEN chars[i] ELSE "_"]

(* re.sub(r'_+', '_', sanitized)                                           *)
RECURSIVE collapse_underscores(_)
collapse_underscores(chars) ==
    IF Len(chars) < 2 THEN chars
    ELSE IF chars[1] = "_" /\ chars[2] = "_"
    THEN collapse_underscores(Tail(chars))
    ELSE <<Head(chars)>> \o collapse_underscores(Tail(chars))

(* .strip('_')                                                             *)
RECURSIVE strip_underscores(_)
strip_underscores(chars) ==
    IF chars = <<>> THEN chars
    ELSE IF Head(chars) = "_" THEN strip_underscores(Tail(chars))
    ELSE IF chars[Len(chars)] = "_"
    THEN strip_underscores(SubSeq(chars, 1, Len(chars) - 1))
    ELSE chars

str_lower(chars) == [i \in DOMAIN chars |-> IF chars[i] = "A" THEN "a" ELSE chars[i]]

(* Lines 16-35.                                                            *)
sanitize_column_name(name) ==
    LET ascii_name == ascii_ignore(nfkd(name))
        sanitized == strip_underscores(collapse_underscores(replace_non_word(ascii_name)))
        prefixed == IF sanitized # <<>> /\ sanitized[1] = "1"
                    THEN <<"c", "o", "l", "_">> \o sanitized
                    ELSE sanitized
    IN IF str_lower(prefixed) # <<>> THEN str_lower(prefixed)
       ELSE <<"u", "n", "n", "a", "m", "e", "d">>

(* Lines 65-83: one ColumnMeta per column, in the order of the header.     *)
analyze_columns(header) ==
    [i \in DOMAIN header |->
        [name |-> header[i], col_key |-> sanitize_column_name(header[i])]]

(* Lines 125-128: the columns of the stored table.                         *)
rename_columns_to_keys(header, columns_meta) ==
    [i \in DOMAIN header |->
        IF \E k \in DOMAIN columns_meta : columns_meta[k].name = header[i]
        THEN columns_meta[CHOOSE k \in DOMAIN columns_meta :
                              columns_meta[k].name = header[i]].col_key
        ELSE header[i]]

ColKeyInit ==
    /\ fn_in \in [header : Headers(MaxColumns)]
    /\ fn_out = Pending
    /\ FnOnly

ColKeyRun ==
    /\ fn_out = Pending
    /\ LET columns_meta == analyze_columns(fn_in.header) IN
       fn_out' = [fate |-> "done", columns_meta |-> columns_meta,
                  columns |-> rename_columns_to_keys(fn_in.header, columns_meta)]
    /\ UNCHANGED <<fn_in, otherVars>>

ColKeyNext == ColKeyRun

SpecColKey == ColKeyInit /\ [][ColKeyNext]_vars

(* C13: the columns of a header with pairwise distinct names get pairwise  *)
(* distinct col_key values, in the metadata and in the stored table.       *)
C13_ColKeysAreDistinct ==
    FnDone =>
        \A i, j \in DOMAIN fn_in.header :
            i # j =>
                /\ fn_out.columns_meta[i].col_key # fn_out.columns_meta[j].col_key
                /\ fn_out.columns[i] # fn_out.columns[j]

(***************************************************************************)
(* SpecColStats: stats_service.calculate_column_stats on one column, with  *)
(* no total_count_for_group_pct.  A cell is missing, holds a number or     *)
(* holds text.  The aggregates of pandas raise on a column in which a text *)
(* cell is left; on a column of dtype object in which none is left (every  *)
(* entry was missing and is now 0) they raise or not, as the library       *)
(* decides.                                                                *)
(* sum, mean, min and max are computed (mean in ten-thousandths, the       *)
(* percentages in hundredths); of the other aggregates the record keeps    *)
(* whether they are set.  A field that is null is the empty set.           *)
(***************************************************************************)
MaxSeriesLen == 5
NA == [na |-> TRUE, v |-> 0, text |-> FALSE]
Cell(v) == [na |-> FALSE, v |-> v, text |-> FALSE]
TextCell == [na |-> FALSE, v |-> 0, text |-> TRUE]
NumericCells == {NA} \cup {Cell(v) : v \in {10, 20, 30, 40}}
TextCells == {NA, TextCell}
StatsColumns(max_len) ==
    [kind : {"numeric"}, series : SeqsUpTo(NumericCells, max_len),
     treat_missing_as_zero : BOOLEAN]
        \cup [kind : {"text"}, series : SeqsUpTo(TextCells, max_len),
              treat_missing_as_zero : BOOLEAN]

Null == {}
Set(v) == {v}
RoundDiv(a, b) == (2 * a + b) \div (2 * b)

RECURSIVE series_sum(_)
series_sum(s) == IF s = <<>> THEN 0 ELSE Head(s).v + series_sum(Tail(s))
series_min(s) == CHOOSE m \in {s[i].v : i \in DOMAIN s} : \A i \in DOMAIN s : m <= s[i].v
series_max(s) == CHOOSE m \in {s[i].v : i \in DOMAIN s} : \A i \in DOMAIN s : m >= s[i].v

(* The counts taken after the policy instead of before it.                 *)
missing_and_total_OfNonMissing(series) ==
    [missing_count |-> 0,
     total_count |-> Len(SelectSeq(series, LAMBDA c : ~c.na))]

(* Lines 180-181: series.isna().sum() and len(series), before the policy.  *)
missing_and_total(series) ==
    [missing_count |-> Cardinality({i \in DOMAIN series : series[i].na}),
     total_count |-> Len(series)]

(* The policy that fills in both cases.                                    *)
policy_series_AlwaysFills(series, treat_missing_as_zero) ==
    [i \in DOMAIN series |-> IF series[i].na THEN Cell(0) ELSE series[i]]

(* Lines 183-186: fillna(0) or dropna().                                   *)
policy_series(series, treat_missing_as_zero) ==
    IF treat_missing_as_zero
    THEN [i \in DOMAIN series |-> IF series[i].na THEN Cell(0) ELSE series[i]]
    ELSE SelectSeq(series, LAMBDA c : ~c.na)

(* Lines 192-197 and 240-245: the record with the counts only.             *)
NullRecord(counts, missing_pct) ==
    [fate |-> "returned", aggregates |-> "skipped",
     count |-> counts.total_count,
     missing_count |-> counts.missing_count, missing_pct |-> Set(missing_pct),
     group_pct |-> Null,
     mean |-> Null, sum |-> Null, min |-> Null, max |-> Null,
     std |-> Null, variance |-> Null, sem |-> Null, cv |-> Null,
     skewness |-> Null, kurtosis |-> Null, ci_lower |-> Null, ci_upper |-> Null,
     rest |-> Null]

(* The record without the guards on n, the standard error and the mean.   *)
FullRecord_NoSizeGuards(s, counts, missing_pct) ==
    LET n == Len(s)
        sum_val == series_sum(s)
        std_is_nan == n = 1
        std_positive == \E i, j \in DOMAIN s : s[i].v # s[j].v
        has_ci == TRUE
    IN [fate |-> "returned", aggregates |-> "computed",
        count |-> counts.total_count,
        missing_count |-> counts.missing_count, missing_pct |-> Set(missing_pct),
        group_pct |-> Null,
        mean |-> Set(RoundDiv(sum_val * 10000, n)),
        sum |-> Set(sum_val),
        min |-> Set(series_min(s)), max |-> Set(series_max(s)),
        std |-> IF std_is_nan THEN Null ELSE Set(IF std_positive THEN "positive" ELSE "zero"),
        variance |-> IF std_is_nan THEN Null ELSE Set(IF std_positive THEN "positive" ELSE "zero"),
        sem |-> IF std_is_nan THEN Null ELSE Set(IF std_positive THEN "positive" ELSE "zero"),
        cv |-> Set("value"),
        skewness |-> Set("value"),
        kurtosis |-> Set("value"),
        ci_lower |-> IF has_ci THEN Set("value") ELSE Null,
        ci_upper |-> IF has_ci THEN Set("value") ELSE Null,
        rest |-> Set("value")]

(* Lines 247-276: the record with the aggregates, each through _safe_round *)
(* (a NaN becomes null: the deviation of one value, and what is derived    *)
(* from it).                                                               *)
FullRecord(s, counts, missing_pct) ==
    LET n == Len(s)
        sum_val == series_sum(s)
        std_is_nan == n = 1
        std_positive == \E i, j \in DOMAIN s : s[i].v # s[j].v
        has_ci == n > 1 /\ std_positive
    IN [fate |-> "returned", aggregates |-> "computed",
        count |-> counts.total_count,
        missing_count |-> counts.missing_count, missing_pct |-> Set(missing_pct),
        group_pct |-> Null,
        mean |-> Set(RoundDiv(sum_val * 10000, n)),
        sum |-> Set(sum_val),
        min |-> Set(series_min(s)), max |-> Set(series_max(s)),
        std |-> IF std_is_nan THEN Null ELSE Set(IF std_positive THEN "positive" ELSE "zero"),
        variance |-> IF std_is_nan THEN Null ELSE Set(IF std_positive THEN "positive" ELSE "zero"),
        sem |-> IF std_is_nan THEN Null ELSE Set(IF std_positive THEN "positive" ELSE "zero"),
        cv |-> IF sum_val # 0 /\ ~std_is_nan THEN Set("value") ELSE Null,
        skewness |-> IF n >= 3 THEN Set("value") ELSE Null,
        kurtosis |-> IF n >= 4 THEN Set("value") ELSE Null,
        ci_lower |-> IF has_ci THEN Set("value") ELSE Null,
        ci_upper |-> IF has_ci THEN Set("value") ELSE Null,
        rest |-> Set("value")]

(* The aggregates without the try around them.                             *)
try_aggregates_NoExcept(kind, s, counts, missing_pct, object_ok) ==
    IF (\E i \in DOMAIN s : s[i].text) \/ (kind = "text" /\ ~object_ok)
    THEN [fate |-> "raised"]
    ELSE FullRecord(s, counts, missing_pct)

(* Lines 199-245: the aggregates; whatever raises ends in the except       *)
(* clause.                                                                 *)
try_aggregates(kind, s, counts, missing_pct, object_ok) ==
    IF (\E i \in DOMAIN s : s[i].text) \/ (kind = "text" /\ ~object_ok)
    THEN [NullRecord(counts, missing_pct) EXCEPT !.aggregates = "raised"]
    ELSE FullRecord(s, counts, missing_pct)

(* Lines 171-276.                                                          *)
calculate_column_stats(kind, series, treat_missing_as_zero, object_ok) ==
    LET counts == missing_and_total(series)
        s == policy_series(series, treat_missing_as_zero)
        n == Len(s)
        missing_pct == IF counts.total_count > 0
                       THEN RoundDiv(counts.missing_count * 10000, counts.total_count)
                       ELSE 0
    IN IF n = 0 THEN NullRecord(counts, missing_pct)
       ELSE try_aggregates(kind, s, counts, missing_pct, object_ok)

ColStatsInit ==
    /\ fn_in \in StatsColumns(MaxSeriesLen)
    /\ fn_out = Pending
    /\ FnOnly

ColStatsRun ==
    /\ fn_out = Pending
    /\ \E object_ok \in BOOLEAN :
           fn_out' = calculate_column_stats(fn_in.kind, fn_in.series,
                                            fn_in.treat_missing_as_zero, object_ok)
    /\ UNCHANGED <<fn_in, otherVars>>

ColStatsNext == ColStatsRun

SpecColStats == ColStatsInit /\ [][ColStatsNext]_vars

MissingEntries == {i \in DOMAIN fn_in.series : fn_in.series[i].na}
PresentEntries == {i \in DOMAIN fn_in.series : ~fn_in.series[i].na}

(* C14: under either policy the record's count is the length of the        *)
(* column passed in and missing_count the number of its missing entries,   *)
(* so missing_count plus the entries that are not missing is count.        *)
C14_CountsAreOfTheInput ==
    (FnDone /\ fn_out.fate = "returned") =>
        /\ fn_out.count = Len(fn_in.series)
        /\ fn_out.missing_count = Cardinality(MissingEntries)
        /\ fn_out.missing_count + Cardinality(PresentEntries) = fn_out.count
        /\ 0 <= fn_out.missing_count
        /\ fn_out.missing_count <= fn_out.count

C14_Witness ==
    /\ FnDone
    /\ ~fn_in.treat_missing_as_zero
    /\ fn_out.count = 3
    /\ fn_out.missing_count = 2
    /\ fn_out.sum = {40}

Aggregates ==
    {"mean", "sum", "min", "max", "std", "variance", "sem", "cv", "skewness",
     "kurtosis", "ci_lower", "ci_upper", "rest"}
AllAggregatesNull == \A f \in Aggregates : fn_out[f] = Null
EmptyAfterPolicy ==
    \/ fn_in.series = <<>>
    \/ ~fn_in.treat_missing_as_zero /\ PresentEntries = {}
AggregateFails == fn_out.aggregates = "raised"

(* C15: calculate_column_stats never raises; when nothing is left after    *)
(* the policy, or when an aggregate fails, it returns a record with count  *)
(* and missing_count set and every aggregate null.                         *)
C15_NeverRaisesNullAggregates ==
    FnDone =>
        /\ fn_out.fate = "returned"
        /\ (EmptyAfterPolicy \/ AggregateFails) =>
              /\ fn_out.count = Len(fn_in.series)
              /\ fn_out.missing_count = Cardinality(MissingEntries)
              /\ AllAggregatesNull

C15_Witness ==
    /\ FnDone
    /\ AggregateFails
    /\ ~EmptyAfterPolicy
    /\ fn_out.count = 2
    /\ fn_out.missing_count = 1
    /\ AllAggregatesNull

C15_WitnessEmpty ==
    /\ FnDone
    /\ fn_in.kind = "numeric"
    /\ ~fn_in.treat_missing_as_zero
    /\ fn_out.count = 2
    /\ fn_out.missing_count = 2
    /\ AllAggregatesNull

(* What the aggregates are taken on, written from the description: the     *)
(* values in order, a missing one counted as 0 or left out.                *)
RECURSIVE ValuesOf(_, _)
ValuesOf(series, as_zero) ==
    IF series = <<>> THEN <<>>
    ELSE LET first == series[1]
             others == ValuesOf(SubSeq(series, 2, Len(series)), as_zero)
         IN IF ~first.na THEN <<first.v>> \o others
            ELSE IF as_zero THEN <<0>> \o others
            ELSE others
RECURSIVE Total(_)
Total(values) ==
    IF values = <<>> THEN 0
    ELSE values[Len(values)] + Total(SubSeq(values, 1, Len(values) - 1))
ExampleSeries == <<Cell(10), Cell(20), Cell(30), Cell(40), NA>>

(* C16: treat-as-zero computes the aggregates on a column of the original  *)
(* length with 0 for each missing entry, the drop policy on the entries    *)
(* that are not missing; for [10, 20, 30, 40, missing] the first gives     *)
(* count 5, missing_count 1, missing_pct 20.0, sum 100 and mean 20, the    *)
(* second the same counts with sum 100 and mean 25.                        *)
C16_PolicyDecidesTheValues ==
    (FnDone /\ fn_in.kind = "numeric") =>
        LET values == ValuesOf(fn_in.series, fn_in.treat_missing_as_zero)
        IN /\ fn_in.treat_missing_as_zero => Len(values) = Len(fn_in.series)
           /\ ~fn_in.treat_missing_as_zero => Len(values) = Cardinality(PresentEntries)
           /\ values # <<>> =>
                 /\ fn_out.sum = {Total(values)}
                 /\ \E mean \in fn_out.mean :
                        /\ 2 * (mean * Len(values) - 10000 * Total(values)) <= Len(values)
                        /\ 2 * (10000 * Total(values) - mean * Len(values)) <= Len(values)
                 /\ \A m \in fn_out.min : \A i \in DOMAIN values : m <= values[i]
                 /\ \A m \in fn_out.max : \A i \in DOMAIN values : m >= values[i]
                 /\ fn_out.min # Null
                 /\ fn_out.max # Null
                 /\ (fn_out.skewness # Null) = (Len(values) >= 3)
                 /\ (fn_out.kurtosis # Null) = (Len(values) >= 4)
           /\ fn_in.series = ExampleSeries =>
                 /\ fn_out.count = 5
                 /\ fn_out.missing_count = 1
                 /\ fn_out.missing_pct = {2000}
                 /\ fn_out.sum = {100}
                 /\ fn_out.mean = {IF fn_in.treat_missing_as_zero THEN 200000 ELSE 250000}

C16_Witness ==
    /\ FnDone
    /\ fn_in.kind = "numeric"
    /\ fn_in.series = ExampleSeries
    /\ ~fn_in.treat_missing_as_zero
    /\ fn_out.mean = {250000}

C16_WitnessZero ==
    /\ FnDone
    /\ fn_in.kind = "numeric"
    /\ fn_in.series = ExampleSeries
    /\ fn_in.treat_missing_as_zero
    /\ fn_out.mean = {200000}
    /\ fn_out.min = {0}

(***************************************************************************)
(* SpecCorr: stats_service.calculate_correlation_matrix on a table with    *)
(* the columns a (numbers, text or missing), b (numbers) and k (one        *)
(* number throughout).  A coefficient is kept as a token.                  *)
(***************************************************************************)
MaxCorrRows == 2
MaxRequested == 3
CorrColumns == {"a", "b", "k"}
CorrRowKinds == [a : {NA, Cell(1), Cell(2), TextCell}, b : {Cell(1), Cell(2)}, k : {Cell(7)}]
CorrTables(max_rows) == SeqsUpTo(CorrRowKinds, max_rows)
CorrRequests(max_requested) == SeqsUpTo(CorrColumns \cup {"ghost"}, max_requested)
CorrFilters == {<<>>, <<[col_key |-> "b", values |-> {Cell(1)}]>>}
columns_meta_get(col) ==
    CASE col = "a" -> "A" [] col = "b" -> "B" [] col = "k" -> "K" [] OTHER -> col

(* Line 598 and the like: the elements of a list that pass a test, in the  *)
(* order of the list.                                                      *)
list_filter(list, Test(_)) == SelectSeq(list, Test)
HasDuplicates(list) == \E i, j \in DOMAIN list : i # j /\ list[i] = list[j]

(* Line 606: pd.to_numeric(..., errors='coerce') on one cell.              *)
to_numeric(cell) == IF cell.text THEN NA ELSE cell

(* Lines 603-611: the numeric copy of the requested columns under the      *)
(* policy; dropna drops a row that misses any of them.                     *)
numeric_subset(df, valid_cols, treat_missing_as_zero) ==
    LET coerced == [i \in DOMAIN df |->
                        [col \in Range(valid_cols) |-> to_numeric(df[i][col])]]
    IN IF treat_missing_as_zero
       THEN [i \in DOMAIN coerced |->
                [col \in Range(valid_cols) |->
                    IF coerced[i][col].na THEN Cell(0) ELSE coerced[i][col]]]
       ELSE SelectSeq(coerced, LAMBDA row : \A col \in Range(valid_cols) : ~row[col].na)

(* Line 615: notna().any() and std() > 0; the deviation of fewer than two  *)
(* values is NaN, and NaN > 0 is false.                                    *)
std_positive(subset, col) ==
    /\ \E i \in DOMAIN subset : ~subset[i][col].na
    /\ \E i, j \in DOMAIN subset : subset[i][col].v # subset[j][col].v

(* Lines 586-633.  With a column requested twice df[valid_cols] has two    *)
(* columns of that name, subset[col] is a table and pd.to_numeric raises   *)
(* TypeError.                                                              *)
calculate_correlation_matrix(df, variables, filters, treat_missing_as_zero) ==
    LET filtered == apply_filters(df, filters)
        sample_size == Len(filtered)
        valid_cols == list_filter(variables, LAMBDA col : col \in CorrColumns)
        subset == numeric_subset(filtered, valid_cols, treat_missing_as_zero)
        cols_to_keep == list_filter(valid_cols, LAMBDA col : std_positive(subset, col))
        empty == [fate |-> "returned", sample_size |-> sample_size,
                  var_names |-> <<>>, matrix |-> <<>>]
    IN IF Len(valid_cols) < 2 THEN empty
       ELSE IF HasDuplicates(valid_cols) THEN [fate |-> "raised"]
       ELSE IF Len(cols_to_keep) < 2 THEN empty
       ELSE [fate |-> "returned", sample_size |-> sample_size,
             var_names |-> [i \in DOMAIN cols_to_keep |-> columns_meta_get(cols_to_keep[i])],
             matrix |-> [i \in DOMAIN cols_to_keep |->
                            [j \in DOMAIN cols_to_keep |->
                                IF i = j THEN "one" ELSE "coefficient"]]]

CorrInit ==
    /\ fn_in \in [df : CorrTables(MaxCorrRows), variables : CorrRequests(MaxRequested),
                  filters : CorrFilters, treat_missing_as_zero : BOOLEAN]
    /\ fn_out = Pending
    /\ FnOnly

CorrRun ==
    /\ fn_out = Pending
    /\ fn_out' = calculate_correlation_matrix(fn_in.df, fn_in.variables, fn_in.filters,
                                              fn_in.treat_missing_as_zero)
    /\ UNCHANGED <<fn_in, otherVars>>

CorrNext == CorrRun

SpecCorr == CorrInit /\ [][CorrNext]_vars

(* The rows the request is about and what the claim keeps of the request.  *)
FilteredRows ==
    SelectSeq(fn_in.df, LAMBDA row :
        \A i \in DOMAIN fn_in.filters : row[fn_in.filters[i].col_key] \in fn_in.filters[i].values)
Existing == SelectSeq(fn_in.variables, LAMBDA col : col \in CorrColumns)
ValueUnderPolicy(row, col) ==
    IF row[col].na \/ row[col].text
    THEN IF fn_in.treat_missing_as_zero THEN {0} ELSE {}
    ELSE {row[col].v}
RowsUnderPolicy ==
    SelectSeq(FilteredRows, LAMBDA row :
        \A col \in Range(Existing) : ValueUnderPolicy(row, col) # {})
Varies(col) ==
    \E i, j \in DOMAIN RowsUnderPolicy :
        ValueUnderPolicy(RowsUnderPolicy[i], col) # ValueUnderPolicy(RowsUnderPolicy[j], col)
Kept == SelectSeq(Existing, Varies)

(* C17: the function returns, for every request, the filtered row count,   *)
(* and the requested variables that exist and vary after the policy, in    *)
(* request order, with a square matrix over them; nothing when fewer than  *)
(* two are kept; a constant column never among them.                       *)
C17_CorrelationKeepsVaryingColumns ==
    FnDone =>
        /\ fn_out.fate = "returned"
        /\ fn_out.sample_size = Len(FilteredRows)
        /\ IF Len(Kept) < 2
           THEN fn_out.var_names = <<>> /\ fn_out.matrix = <<>>
           ELSE /\ fn_out.var_names = [i \in DOMAIN Kept |-> columns_meta_get(Kept[i])]
                /\ Len(fn_out.matrix) = Len(Kept)
                /\ \A i \in DOMAIN fn_out.matrix : Len(fn_out.matrix[i]) = Len(Kept)
        /\ \A i \in DOMAIN fn_out.var_names : fn_out.var_names[i] # "K"

(* The same for requests that name no column twice.                        *)
C17_HoldsWithoutRepeats ==
    (FnDone /\ ~HasDuplicates(Existing)) =>
        /\ fn_out.fate = "returned"
        /\ fn_out.sample_size = Len(FilteredRows)
        /\ IF Len(Kept) < 2
           THEN fn_out.var_names = <<>> /\ fn_out.matrix = <<>>
           ELSE /\ fn_out.var_names = [i \in DOMAIN Kept |-> columns_meta_get(Kept[i])]
                /\ Len(fn_out.matrix) = Len(Kept)
                /\ \A i \in DOMAIN fn_out.matrix : Len(fn_out.matrix[i]) = Len(Kept)
        /\ \A i \in DOMAIN fn_out.var_names : fn_out.var_names[i] # "K"

C17_RepeatedColumnRaises ==
    /\ FnDone
    /\ fn_in.variables = <<"a", "a">>
    /\ fn_out.fate = "raised"

C17_ConstantColumnDropped ==
    /\ FnDone
    /\ fn_in.variables = <<"b", "k", "a">>
    /\ fn_out.fate = "returned"
    /\ fn_out.var_names = <<"B", "A">>

(***************************************************************************)
(* SpecEndpoints: the handlers of /stats/descriptive, /stats/frequencies,  *)
(* /stats/normality and /stats/correlation over the dataset rows and the   *)
(* table cache.  Every stored dataset holds StoredTable.  last keeps the   *)
(* request, the cache as it was before it, whether the table was fetched   *)
(* for it, and the answer.                                                 *)
(***************************************************************************)
MaxVariables == 2
StoredTable ==
    <<[a |-> Cell(1), b |-> Cell(1), k |-> Cell(7)],
      [a |-> Cell(2), b |-> NA, k |-> Cell(7)],
      [a |-> Cell(2), b |-> Cell(2), k |-> Cell(7)]>>
StoredRow == [var_type |-> "continuous"]
RequestIds == ApiIds \cup {MaxDatasets + 1}
RequestVariables(max_variables) == SeqsUpTo(CorrColumns \cup {"ghost"}, max_variables)
NoAnswer == [keys |-> <<>>, statistics |-> <<>>]

(* stats._load_dataset, lines 25-43: the row, then the table through the   *)
(* cache.                                                                  *)
_load_dataset(dataset_id, load_ok) ==
    IF dataset_id \notin ApiIds \/ ~HasRow(dataset_id)
    THEN [status |-> "not_found", cache |-> df_cache, order |-> cache_order,
          fetched |-> FALSE]
    ELSE LET r == get_cached_dataframe(df_cache, cache_order, dataset_id, load_ok)
         IN [status |-> IF r.raised = "none" THEN "ok" ELSE "load_error",
             cache |-> r.cache, order |-> r.order, fetched |-> TRUE]

(* stats_service lines 508-517: the overall statistics, one record for     *)
(* each requested variable that is a column.                               *)
overall_stats(df, variables, treat_missing_as_zero) ==
    LET keys == list_filter(variables, LAMBDA col_key : col_key \in CorrColumns)
    IN [keys |-> keys,
        statistics |-> [i \in DOMAIN keys |->
            calculate_column_stats("numeric", [r \in DOMAIN df |-> df[r][keys[i]]],
                                   treat_missing_as_zero, TRUE)]]

(* frequency_service lines 27-29 and normality_service lines 33-35: a      *)
(* table or a result for each requested variable that is a column.         *)
per_variable_results(df, variables) ==
    [keys |-> list_filter(variables, LAMBDA var : var \in CorrColumns),
     statistics |-> <<>>]

(* correlation.py lines 35-51 on the result of                             *)
(* calculate_correlation_matrix.                                           *)
correlation_response(df, variables, treat_missing_as_zero) ==
    LET r == calculate_correlation_matrix(df, variables, <<>>, treat_missing_as_zero)
    IN IF r.fate = "raised" THEN [status |-> "error", answer |-> NoAnswer]
       ELSE [status |-> "ok",
             answer |-> [keys |-> r.var_names, statistics |-> r.matrix]]

Answered(op, variables, status, answer, loaded) ==
    [op |-> op, variables |-> variables, status |-> status, answer |-> answer,
     fetched |-> loaded, cache_before |-> df_cache, order_before |-> cache_order]

EndpointsInit ==
    /\ db \in [ApiIds -> {NoRow, StoredRow}]
    /\ next_id = MaxDatasets + 1
    /\ df_cache = <<>>
    /\ cache_order = <<>>
    /\ used_before = {}
    /\ last = NoCall
    /\ SelectIdle /\ CompareIdle /\ RaceIdle /\ GroupIdle /\ FnIdle

(* stats.py lines 46-78, 81-102 and 130-151: the dataset is loaded first,  *)
(* the variables are looked at after it.                                   *)
LoadThenValidate(op, Compute(_, _)) ==
    \E dataset_id \in RequestIds, load_ok \in BOOLEAN,
       variables \in RequestVariables(MaxVariables), treat_missing_as_zero \in BOOLEAN :
        LET l == _load_dataset(dataset_id, load_ok) IN
        /\ df_cache' = l.cache
        /\ cache_order' = l.order
        /\ last' = IF l.status # "ok"
                   THEN Answered(op, variables, l.status, NoAnswer, l.fetched)
                   ELSE IF variables = <<>>
                   THEN Answered(op, variables, "validation_error", NoAnswer, l.fetched)
                   ELSE Answered(op, variables, "ok",
                                 Compute(variables, treat_missing_as_zero), l.fetched)
        /\ UNCHANGED <<selVars, cmpVars, used_before, apiVars, raceVars, grpVars, fnVars>>

get_descriptive_stats ==
    LoadThenValidate("descriptive",
        LAMBDA variables, tmz : overall_stats(StoredTable, variables, tmz))

get_frequencies ==
    LoadThenValidate("frequencies",
        LAMBDA variables, tmz : per_variable_results(StoredTable, variables))

get_normality ==
    LoadThenValidate("normality",
        LAMBDA variables, tmz : per_variable_results(StoredTable, variables))

(* correlation.py lines 16-51: the row, the number of variables, and only  *)
(* then the table.                                                         *)
get_correlation_matrix ==
    \E dataset_id \in RequestIds, load_ok \in BOOLEAN,
       variables \in RequestVariables(MaxVariables), treat_missing_as_zero \in BOOLEAN :
        IF dataset_id \notin ApiIds \/ ~HasRow(dataset_id)
        THEN /\ last' = Answered("correlation", variables, "not_found", NoAnswer, FALSE)
             /\ UNCHANGED <<selVars, cmpVars, cacheVars, used_before, apiVars, raceVars, grpVars, fnVars>>
        ELSE IF Len(variables) < 2
        THEN /\ last' = Answered("correlation", variables, "validation_error", NoAnswer, FALSE)
             /\ UNCHANGED <<selVars, cmpVars, cacheVars, used_before, apiVars, raceVars, grpVars, fnVars>>
        ELSE LET r == get_cached_dataframe(df_cache, cache_order, dataset_id, load_ok)
                 c == correlation_response(StoredTable, variables, treat_missing_as_zero)
             IN /\ df_cache' = r.cache
                /\ cache_order' = r.order
                /\ last' = IF r.raised # "none"
                           THEN Answered("correlation", variables, "load_error", NoAnswer, TRUE)
                           ELSE Answered("correlation", variables, c.status, c.answer, TRUE)
                /\ UNCHANGED <<selVars, cmpVars, used_before, apiVars, raceVars, grpVars, fnVars>>

EndpointsNext ==
    get_descriptive_stats \/ get_frequencies \/ get_normality \/ get_correlation_matrix

SpecEndpoints == EndpointsInit /\ [][EndpointsNext]_vars

Rejected == last # NoCall /\ last.status = "validation_error"

(* C18: a request rejected for an input validation error (no variables     *)
(* for descriptive statistics, frequencies or normality, fewer than two    *)
(* for correlation) is rejected before the table is loaded for it, and the *)
(* cache, contents and recency order, is as it was before the request.     *)
C18_RejectedBeforeLoad ==
    Rejected =>
        /\ ~last.fetched
        /\ df_cache = last.cache_before
        /\ cache_order = last.order_before

(* The same for the correlation handler alone.                             *)
C18_CorrelationRejectsBeforeLoad ==
    (Rejected /\ last.op = "correlation") =>
        /\ ~last.fetched
        /\ df_cache = last.cache_before
        /\ cache_order = last.order_before

C18_RejectedAfterLoad ==
    /\ Rejected
    /\ last.op = "descriptive"
    /\ last.fetched
    /\ last.cache_before = <<>>
    /\ df_cache # <<>>

NamesUnknownVariable ==
    /\ last # NoCall
    /\ last.op \in {"descriptive", "correlation"}
    /\ \E i \in DOMAIN last.variables : last.variables[i] \notin CorrColumns
    /\ last.status \notin {"not_found", "load_error"}

(* C19: a descriptive-statistics or correlation request that names a       *)
(* variable which is not a column of the dataset is rejected as an input   *)
(* validation error and returns no statistics.                             *)
C19_UnknownVariableRejected ==
    NamesUnknownVariable =>
        /\ last.status = "validation_error"
        /\ last.answer = NoAnswer

C19_AnsweredForTheRest ==
    /\ NamesUnknownVariable
    /\ last.op = "descriptive"
    /\ last.variables = <<"a", "ghost">>
    /\ last.status = "ok"
    /\ last.answer.keys = <<"a">>
    /\ last.answer.statistics[1].count = 3

C19_CorrelationAnswersEmpty ==
    /\ NamesUnknownVariable
    /\ last.op = "correlation"
    /\ last.variables = <<"a", "ghost">>
    /\ last.status = "ok"
    /\ last.answer = NoAnswer

(***************************************************************************)
(* SpecSort: calculate_descriptive_stats grouped by a column of numbers,   *)
(* with the column of the first requested variable, over every sort order  *)
(* and every limit.                                                        *)
(***************************************************************************)
MaxSortRows == 3
SortRowKinds == [g : {Number(1), Number(2)}, v : {NA, Cell(1), Cell(2)}]
SortTables(max_rows) == SeqsUpTo(SortRowKinds, max_rows)
SortVariables == {<<>>, <<"v">>, <<"ghost">>}
SortOrders == {"name", "count", "mean_asc", "mean_desc"}

SortInit ==
    /\ fn_in \in [df : SortTables(MaxSortRows), variables : SortVariables,
                  sort_groups_by : SortOrders, max_groups : 0..(MaxSortRows + 1)]
    /\ fn_out = Pending
    /\ FnOnly

SortRun ==
    /\ fn_out = Pending
    /\ fn_out' = calculate_descriptive_stats(
                     [i \in DOMAIN fn_in.df |-> fn_in.df[i].g], "number",
                     [i \in DOMAIN fn_in.df |-> fn_in.df[i].v], fn_in.variables,
                     <<"g">>, fn_in.sort_groups_by, fn_in.max_groups)
    /\ UNCHANGED <<fn_in, otherVars>>

SortNext == SortRun

SpecSort == SortInit /\ [][SortNext]_vars

(* The groups of the table and the order the claim gives them.             *)
GroupKeys == {fn_in.df[i].g : i \in DOMAIN fn_in.df}
RowsOf(key) == {i \in DOMAIN fn_in.df : fn_in.df[i].g = key}
NumericRowsOf(key) == {i \in RowsOf(key) : ~fn_in.df[i].v.na}
RECURSIVE ValueSum(_)
ValueSum(rows) ==
    IF rows = {} THEN 0
    ELSE LET i == CHOOSE i \in rows : TRUE IN fn_in.df[i].v.v + ValueSum(rows \ {i})
SortsByMean ==
    fn_in.sort_groups_by \in {"mean_asc", "mean_desc"} /\ fn_in.variables # <<>>
HasMean(key) == fn_in.variables = <<"v">> /\ NumericRowsOf(key) # {}
MeanBelow(a, b) ==
    /\ HasMean(b)
    /\ \/ ~HasMean(a)
       \/ ValueSum(NumericRowsOf(a)) * Cardinality(NumericRowsOf(b))
              < ValueSum(NumericRowsOf(b)) * Cardinality(NumericRowsOf(a))
SortsBefore(a, b) ==
    CASE fn_in.sort_groups_by = "count" -> Cardinality(RowsOf(a)) > Cardinality(RowsOf(b))
      [] fn_in.sort_groups_by = "mean_asc" /\ fn_in.variables # <<>> -> MeanBelow(a, b)
      [] fn_in.sort_groups_by = "mean_desc" /\ fn_in.variables # <<>> -> MeanBelow(b, a)
      [] OTHER -> FALSE
Precedes(a, b) ==
    \/ SortsBefore(a, b)
    \/ ~SortsBefore(b, a) /\ a.n < b.n
Listed == [j \in DOMAIN fn_out.group_summaries |-> fn_out.group_summaries[j].group_vals]

(* C20: for every max_groups >= 0 the groups are sorted first and the      *)
(* first min(max_groups, number of groups) of the sorted order are kept:   *)
(* they are listed in that order, every listed group precedes every group  *)
(* left out, groups that tie on the sort key are in key order, and         *)
(* total_groups counts the groups before the limit.                        *)
C20_SortThenLimit ==
    FnDone =>
        /\ fn_out.total_groups = Cardinality(GroupKeys)
        /\ Len(Listed) = IF fn_in.max_groups < Cardinality(GroupKeys)
                         THEN fn_in.max_groups ELSE Cardinality(GroupKeys)
        /\ \A j \in DOMAIN Listed : Listed[j] \in GroupKeys
        /\ \A i, j \in DOMAIN Listed : i < j => Precedes(Listed[i], Listed[j])
        /\ \A j \in DOMAIN Listed :
               \A key \in GroupKeys \ Range(Listed) : Precedes(Listed[j], key)
        /\ \A j \in DOMAIN Listed :
               fn_out.group_summaries[j].rows = RowsOf(Listed[j])

C20_Witness ==
    /\ FnDone
    /\ fn_in.sort_groups_by = "count"
    /\ fn_in.max_groups = 1
    /\ fn_out.total_groups = 2
    /\ Listed = <<Number(2)>>
    /\ Cardinality(RowsOf(Number(2))) = 2

C20_WitnessMeanTie ==
    /\ FnDone
    /\ fn_in.sort_groups_by = "mean_desc"
    /\ fn_in.variables = <<"v">>
    /\ fn_in.max_groups = 2
    /\ HasMean(Number(1))
    /\ ~MeanBelow(Number(1), Number(2))
    /\ ~MeanBelow(Number(2), Number(1))
    /\ Listed = <<Number(1), Number(2)>>

C20_WitnessMean ==
    /\ FnDone
    /\ fn_in.sort_groups_by = "mean_asc"
    /\ fn_in.max_groups = 1
    /\ MeanBelow(Number(2), Number(1))
    /\ HasMean(Number(2))
    /\ Listed = <<Number(2)>>

NoMeanGroupsLast ==
    /\ \A i, j \in DOMAIN Listed :
           (~HasMean(Listed[i]) /\ HasMean(Listed[j])) => j < i
    /\ \A j \in DOMAIN Listed :
           \A key \in GroupKeys \ Range(Listed) : HasMean(key) => HasMean(Listed[j])

(* C21: when the groups are sorted by the mean of the reference variable,  *)
(* ascending or descending, every group with no numeric value of it comes  *)
(* after every group that has a mean, so the limit cuts such groups first. *)
C21_NoMeanGroupsSortLast ==
    (FnDone /\ SortsByMean) => NoMeanGroupsLast

(* The same for the descending order alone.                                *)
C21_HoldsDescending ==
    (FnDone /\ SortsByMean /\ fn_in.sort_groups_by = "mean_desc") => NoMeanGroupsLast

C21_NoMeanGroupFirstAscending ==
    /\ FnDone
    /\ fn_in.sort_groups_by = "mean_asc"
    /\ fn_in.variables = <<"v">>
    /\ fn_in.max_groups = 1
    /\ HasMean(Number(1))
    /\ ~HasMean(Number(2))
    /\ Listed = <<Number(2)>>

Computed == FnDone /\ fn_out.fate = "returned" /\ fn_out.aggregates = "computed"
PolicyValues == ValuesOf(fn_in.series, fn_in.treat_missing_as_zero)
StandardErrorIsZero ==
    \A i, j \in DOMAIN PolicyValues : PolicyValues[i] = PolicyValues[j]

C22_WitnessZeroMean ==
    /\ Computed
    /\ Len(PolicyValues) = 2
    /\ Total(PolicyValues) = 0
    /\ fn_out.cv = Null
    /\ fn_out.ci_lower = Null
    /\ fn_out.std # Null

(***************************************************************************)
(* SpecEffect: the effect size of compare_groups, lines 380-386 and        *)
(* 412-419, on the valid groups of one variable (2 or 3 groups of at least *)
(* 2 numbers).  Values are kept exact: with L the product of the group     *)
(* sizes and the total size, every mean times L is a whole number.         *)
(* Cohen's d is held as its sign and its square num/den, eta-squared as    *)
(* num/den.                                                                *)
(***************************************************************************)
MaxGroupLen == 3
EffectValues == {1, 3}
EffectGroups(max_len) == {g \in SeqsUpTo(EffectValues, max_len) : Len(g) >= MinGroupObs}
EffectInputs(max_len) ==
    [1..2 -> EffectGroups(max_len)] \cup [1..3 -> EffectGroups(max_len)]

RECURSIVE np_sum(_)
np_sum(a) == IF a = <<>> THEN 0 ELSE Head(a) + np_sum(Tail(a))
RECURSIVE np_concatenate(_)
np_concatenate(data) ==
    IF data = <<>> THEN <<>>
    ELSE Head(data) \o np_concatenate(Tail(data))
RECURSIVE SizeProduct(_)
SizeProduct(data) ==
    IF data = <<>> THEN 1
    ELSE Len(Head(data)) * SizeProduct(Tail(data))
Scale(data) == SizeProduct(data) * Len(np_concatenate(data))

(* np.mean(a) times scale, and the sum of (x - mean)^2 times scale^2.      *)
np_mean(a, scale) == (np_sum(a) * scale) \div Len(a)
squared_deviations(a, mean, scale) ==
    np_sum([i \in DOMAIN a |-> (a[i] * scale - mean) * (a[i] * scale - mean)])
Sign(x) == IF x > 0 THEN 1 ELSE IF x < 0 THEN 0 - 1 ELSE 0

(* Cohen's d without abs().                                                *)
cohens_d_NoAbs(data) ==
    LET scale == Scale(data)
        a == data[1]
        b == data[2]
        pooled == squared_deviations(a, np_mean(a, scale), scale) * (Len(b) - 1)
                    + squared_deviations(b, np_mean(b, scale), scale) * (Len(a) - 1)
        diff == np_mean(a, scale) - np_mean(b, scale)
    IN IF pooled > 0
       THEN [fate |-> "returned", effect_size_name |-> "d de Cohen",
             sign |-> Sign(diff),
             num |-> diff * diff * 2 * (Len(a) - 1) * (Len(b) - 1), den |-> pooled]
       ELSE [fate |-> "returned", effect_size_name |-> "d de Cohen",
             sign |-> 0, num |-> 0, den |-> 1]

(* Lines 380-386: pooled_std is the root of the mean of the two sample     *)
(* variances (ddof=1); pooled below is its square times                    *)
(* 2 (len(a)-1) (len(b)-1) scale^2.                                        *)
cohens_d(data) ==
    LET scale == Scale(data)
        a == data[1]
        b == data[2]
        pooled == squared_deviations(a, np_mean(a, scale), scale) * (Len(b) - 1)
                    + squared_deviations(b, np_mean(b, scale), scale) * (Len(a) - 1)
        diff == np_mean(a, scale) - np_mean(b, scale)
        abs_diff == IF diff < 0 THEN 0 - diff ELSE diff
    IN IF pooled > 0
       THEN [fate |-> "returned", effect_size_name |-> "d de Cohen",
             sign |-> Sign(abs_diff),
             num |-> abs_diff * abs_diff * 2 * (Len(a) - 1) * (Len(b) - 1), den |-> pooled]
       ELSE [fate |-> "returned", effect_size_name |-> "d de Cohen",
             sign |-> 0, num |-> 0, den |-> 1]

(* Lines 412-419.                                                          *)
eta_squared(data) ==
    LET scale == Scale(data)
        all_data == np_concatenate(data)
        grand_mean == np_mean(all_data, scale)
        ss_between ==
            np_sum([k \in DOMAIN data |->
                Len(data[k]) * (np_mean(data[k], scale) - grand_mean)
                                   * (np_mean(data[k], scale) - grand_mean)])
        ss_total == squared_deviations(all_data, grand_mean, scale)
    IN IF ss_total > 0
       THEN [fate |-> "returned", effect_size_name |-> "eta2",
             sign |-> Sign(ss_between), num |-> ss_between, den |-> ss_total]
       ELSE [fate |-> "returned", effect_size_name |-> "eta2",
             sign |-> 0, num |-> 0, den |-> 1]

(* The branch on n_groups of line 364.                                     *)
effect_size(data) ==
    IF Len(data) = 2 THEN cohens_d(data) ELSE eta_squared(data)

EffectInit ==
    /\ fn_in \in [group_data : EffectInputs(MaxGroupLen)]
    /\ fn_out = Pending
    /\ FnOnly

EffectRun ==
    /\ fn_out = Pending
    /\ fn_out' = effect_size(fn_in.group_data)
    /\ UNCHANGED <<fn_in, otherVars>>

EffectNext == EffectRun

SpecEffect == EffectInit /\ [][EffectNext]_vars

(* The degenerate cases, read off the data.                                *)
IsConstant(a) == \A i, j \in DOMAIN a : a[i] = a[j]
PooledStdIsZero == \A k \in DOMAIN fn_in.group_data : IsConstant(fn_in.group_data[k])
TotalSumOfSquaresIsZero == IsConstant(np_concatenate(fn_in.group_data))

(* C23: the effect size never raises and is never negative; Cohen's d is 0 *)
(* when the pooled standard deviation is 0, eta-squared is 0 when the      *)
(* total sum of squares is 0, and eta-squared is between 0 and 1.          *)
C23_EffectSizeBounded ==
    FnDone =>
        /\ fn_out.fate = "returned"
        /\ fn_out.sign >= 0
        /\ fn_out.num >= 0
        /\ fn_out.den > 0
        /\ (Len(fn_in.group_data) = 2 /\ PooledStdIsZero) => fn_out.num = 0
        /\ (Len(fn_in.group_data) = 3 /\ TotalSumOfSquaresIsZero) => fn_out.num = 0
        /\ Len(fn_in.group_data) = 3 => fn_out.num <= fn_out.den

C23_Witness ==
    /\ FnDone
    /\ fn_in.group_data = <<<<1, 1>>, <<3, 3>>>>
    /\ fn_out.effect_size_name = "d de Cohen"
    /\ fn_out.num = 0

C23_WitnessEta ==
    /\ FnDone
    /\ fn_in.group_data = <<<<1, 1>>, <<3, 3>>, <<1, 3>>>>
    /\ fn_out.effect_size_name = "eta2"
    /\ fn_out.num > 0
    /\ fn_out.num < fn_out.den

C23_WitnessLargerSecondMean ==
    /\ FnDone
    /\ fn_in.group_data = <<<<1, 1>>, <<1, 3>>>>
    /\ fn_out.sign = 1

(***************************************************************************)
(* SpecFlight: a statistics request (_load_dataset) running in one thread  *)
(* of the pool while delete_dataset or update_column_type runs in another. *)
(* The lines of get_cached_dataframe are the steps of SpecRace; the row    *)
(* read, the file removal, the lines of clear_cache inside the handler and *)
(* the commit are steps of their own.  A row keeps whether its parquet     *)
(* file is on disk.  A handler that changes the dataset stays at "done"    *)
(* with what it raised and whether a request for its id had read the row   *)
(* and not yet put the table in the cache at some moment of its run.       *)
(***************************************************************************)
FlightRow == [var_type |-> "continuous", file |-> TRUE]
ChangeLines == {"d_unlink", "u_commit", "m_check", "m_del", "m_remove", "d_commit"}
BeforeInsert == {"g_check", "g_remove", "g_append_hit", "g_return_hit", "g_load", "g_insert"}
RequestBeforeInsert(u, id) == thr[u].pc \in BeforeInsert /\ thr[u].id = id
Changing(u, id) == thr[u].pc \in ChangeLines /\ thr[u].id = id
Done(t, raised) == [thr EXCEPT ![t].pc = "done", ![t].raised = raised]
ChangeEnded(t, raised) == [op |-> thr[t].handler, id |-> thr[t].id, raised |-> raised]

FlightInit ==
    /\ \E n \in {0, max_cache_size} :
           /\ cache_order = [i \in 1..n |-> i]
           /\ df_cache = [i \in 1..n |-> LoadedTable(i)]
    /\ db = [id \in RaceRequestIds |-> FlightRow]
    /\ next_id = 0
    /\ used_before = {}
    /\ last = NoCall
    /\ thr = [t \in Threads |-> IdleThread]
    /\ calls = 0
    /\ same_id_gets_only = TRUE
    /\ SelectIdle /\ CompareIdle /\ GroupIdle /\ FnIdle

(* stats.py lines 27-29: the row is read; then get_cached_dataframe.       *)
FlightRequest ==
    \E t \in Threads, dataset_id \in RaceRequestIds :
        /\ thr[t].pc = "idle"
        /\ calls < MaxCalls
        /\ calls' = calls + 1
        /\ IF ~HasRow(dataset_id)
           THEN /\ last' = [op |-> "request", id |-> dataset_id, raised |-> "not_found"]
                /\ UNCHANGED thr
           ELSE /\ thr' = [u \in Threads |->
                              IF u = t THEN [pc |-> "g_check", id |-> dataset_id, oldest |-> None]
                              ELSE IF Changing(u, dataset_id)
                              THEN [thr[u] EXCEPT !.raced = TRUE]
                              ELSE thr[u]]
                /\ UNCHANGED last
        /\ UNCHANGED <<selVars, cmpVars, cacheVars, used_before, apiVars,
                       same_id_gets_only, grpVars, fnVars>>

(* data_service line 199 for the path read from the row: the file is there *)
(* or load_parquet raises.                                                 *)
FlightLoad ==
    \E t \in Threads :
        /\ thr[t].pc = "g_load"
        /\ IF HasRow(thr[t].id) /\ db[thr[t].id].file
           THEN thr' = At(t, "g_insert") /\ UNCHANGED last
           ELSE thr' = Ended(t) /\ last' = GetEnded(t, "load", NoTable)
        /\ UNCHANGED <<selVars, cmpVars, cacheVars, used_before, apiVars,
                       calls, same_id_gets_only, grpVars, fnVars>>

(* datasets.py lines 236-238 and 203-221: the row is read and looked at.   *)
FlightChange ==
    \E t \in Threads, dataset_id \in RaceRequestIds, handler \in {"delete_dataset", "update_column_type"} :
        /\ thr[t].pc = "idle"
        /\ calls < MaxCalls
        /\ calls' = calls + 1
        /\ IF ~HasRow(dataset_id)
           THEN /\ last' = [op |-> handler, id |-> dataset_id, raised |-> "not_found"]
                /\ UNCHANGED thr
           ELSE /\ thr' = [thr EXCEPT ![t] =
                              [pc |-> IF handler = "delete_dataset" THEN "d_unlink" ELSE "u_commit",
                               id |-> dataset_id, oldest |-> None, handler |-> handler,
                               raised |-> "none",
                               raced |-> \E u \in Threads \ {t} :
                                             RequestBeforeInsert(u, dataset_id)]]
                /\ UNCHANGED last
        /\ UNCHANGED <<selVars, cmpVars, cacheVars, used_before, apiVars,
                       same_id_gets_only, grpVars, fnVars>>

(* datasets.py lines 255-259: Path(dataset.parquet_path).unlink()          *)
DeleteUnlink ==
    \E t \in Threads :
        /\ thr[t].pc = "d_unlink"
        /\ db' = IF HasRow(thr[t].id) THEN [db EXCEPT ![thr[t].id].file = FALSE] ELSE db
        /\ thr' = At(t, "m_check")
        /\ UNCHANGED <<selVars, cmpVars, cacheVars, used_before, last, next_id,
                       calls, same_id_gets_only, grpVars, fnVars>>

(* datasets.py lines 223-224: the new columns_meta is committed; the       *)
(* UPDATE of a row another request has deleted raises.                     *)
UpdateCommit ==
    \E t \in Threads :
        /\ thr[t].pc = "u_commit"
        /\ IF HasRow(thr[t].id)
           THEN thr' = At(t, "m_check") /\ UNCHANGED last
           ELSE thr' = Done(t, "StaleDataError") /\ last' = ChangeEnded(t, "StaleDataError")
        /\ UNCHANGED <<selVars, cmpVars, cacheVars, used_before, apiVars,
                       calls, same_id_gets_only, grpVars, fnVars>>

(* clear_cache line 220 in the handler; update_column_type returns after   *)
(* clear_cache.                                                            *)
ChangeClearCheck ==
    \E t \in Threads :
        /\ thr[t].pc = "m_check"
        /\ IF thr[t].id \in DOMAIN df_cache
           THEN thr' = At(t, "m_del") /\ UNCHANGED last
           ELSE IF thr[t].handler = "delete_dataset"
           THEN thr' = At(t, "d_commit") /\ UNCHANGED last
           ELSE thr' = Done(t, "none") /\ last' = ChangeEnded(t, "none")
        /\ UNCHANGED <<selVars, cmpVars, cacheVars, used_before, apiVars,
                       calls, same_id_gets_only, grpVars, fnVars>>

(* clear_cache line 221.                                                   *)
ChangeClearDel ==
    \E t \in Threads :
        /\ thr[t].pc = "m_del"
        /\ IF thr[t].id \in DOMAIN df_cache
           THEN /\ df_cache' = DictDel(df_cache, thr[t].id)
                /\ thr' = At(t, "m_remove")
                /\ UNCHANGED last
           ELSE /\ thr' = Done(t, "KeyError")
                /\ last' = ChangeEnded(t, "KeyError")
                /\ UNCHANGED df_cache
        /\ UNCHANGED <<selVars, cmpVars, cache_order, used_before, apiVars,
                       calls, same_id_gets_only, grpVars, fnVars>>

(* clear_cache line 222.                                                   *)
ChangeClearRemove ==
    \E t \in Threads :
        /\ thr[t].pc = "m_remove"
        /\ IF thr[t].id \in Range(cache_order)
           THEN /\ cache_order' = list_remove(cache_order, thr[t].id)
                /\ IF thr[t].handler = "delete_dataset"
                   THEN thr' = At(t, "d_commit") /\ UNCHANGED last
                   ELSE thr' = Done(t, "none") /\ last' = ChangeEnded(t, "none")
           ELSE /\ thr' = Done(t, "ValueError")
                /\ last' = ChangeEnded(t, "ValueError")
                /\ UNCHANGED cache_order
        /\ UNCHANGED <<selVars, cmpVars, df_cache, used_before, apiVars,
                       calls, same_id_gets_only, grpVars, fnVars>>

(* datasets.py lines 268-269: db.delete(dataset); db.commit()              *)
DeleteCommit ==
    \E t \in Threads :
        /\ thr[t].pc = "d_commit"
        /\ db' = [db EXCEPT ![thr[t].id] = NoRow]
        /\ thr' = Done(t, "none")
        /\ last' = ChangeEnded(t, "none")
        /\ UNCHANGED <<selVars, cmpVars, cacheVars, used_before, next_id,
                       calls, same_id_gets_only, grpVars, fnVars>>

FlightNext ==
    \/ FlightRequest \/ FlightLoad \/ FlightChange
    \/ GetCheck \/ GetRemove \/ GetAppendHit \/ GetReturnHit
    \/ GetInsert \/ GetAppend \/ GetWhile \/ GetPop \/ GetDel
    \/ DeleteUnlink \/ UpdateCommit
    \/ ChangeClearCheck \/ ChangeClearDel \/ ChangeClearRemove \/ DeleteCommit

SpecFlight == FlightInit /\ [][FlightNext]_vars

BothFinished(t) ==
    /\ thr[t].pc = "done"
    /\ thr[t].raced
    /\ calls = 2
    /\ \A u \in Threads \ {t} : thr[u].pc = "idle"

(* C26: when a request for a dataset had read its row, or loaded its table *)
(* and not yet cached it, while delete_dataset or update_column_type ran   *)
(* for the same dataset, the cache holds no table of it once both have     *)
(* finished.                                                               *)
C26_NoEntryAfterRace ==
    \A t \in Threads : BothFinished(t) => thr[t].id \notin DOMAIN df_cache

C26_StaleAfterDelete ==
    \E t \in Threads :
        /\ BothFinished(t)
        /\ thr[t].handler = "delete_dataset"
        /\ thr[t].raised = "none"
        /\ ~HasRow(thr[t].id)
        /\ thr[t].id \in DOMAIN df_cache
        /\ last.op = "get_cached_dataframe"
        /\ last.raised = "none"

C26_CachedAfterUpdate ==
    \E t \in Threads :
        /\ BothFinished(t)
        /\ thr[t].handler = "update_column_type"
        /\ thr[t].raised = "none"
        /\ thr[t].id \in DOMAIN df_cache
        /\ last.op = "get_cached_dataframe"
        /\ last.raised = "none"

(***************************************************************************)
(* SpecUpload: upload_dataset statement by statement from the first        *)
(* commit on, with list_datasets and get_dataset_meta between its          *)
(* statements and after it.  A row keeps whether parquet_path has been     *)
(* set and whether the table file is on disk.  Each statement that can     *)
(* raise does or does not; the except clause rolls back what is not        *)
(* committed and answers 500.                                              *)
(***************************************************************************)
EventLoop == {1}
UploadedRow(var_type) == [var_type |-> var_type, parquet_path |-> "", file |-> FALSE]
Shown(ids, uploading) == [rows |-> [id \in ids |-> db[id]], uploading |-> uploading]
Uploading == thr[1].pc # "idle"
UploadEnded(status, id) == [op |-> "upload_dataset", id |-> id, status |-> status, shown |-> Shown({}, FALSE)]

UploadInit ==
    /\ db = [id \in ApiIds |-> NoRow]
    /\ next_id = 1
    /\ thr = [t \in EventLoop |-> [pc |-> "idle", id |-> None]]
    /\ calls = 0
    /\ same_id_gets_only = TRUE
    /\ last = NoCall
    /\ used_before = {}
    /\ df_cache = <<>>
    /\ cache_order = <<>>
    /\ SelectIdle /\ CompareIdle /\ GroupIdle /\ FnIdle

(* datasets.py lines 52-95: the checks, load_xlsx and analyze_columns end  *)
(* the request before a row exists, or the row is added with               *)
(* parquet_path="" and committed.                                          *)
UploadCommitRow ==
    \E accepted \in BOOLEAN, var_type \in VarTypes :
        /\ thr[1].pc = "idle"
        /\ IF accepted
           THEN /\ next_id <= MaxDatasets
                /\ db' = [db EXCEPT ![next_id] = UploadedRow(var_type)]
                /\ next_id' = next_id + 1
                /\ thr' = [thr EXCEPT ![1] = [pc |-> "save_parquet", id |-> next_id]]
                /\ UNCHANGED last
           ELSE /\ last' = UploadEnded("rejected", None)
                /\ UNCHANGED <<db, next_id, thr>>
        /\ UNCHANGED <<selVars, cmpVars, cacheVars, used_before, calls,
                       same_id_gets_only, grpVars, fnVars>>

(* datasets.py lines 98-99 and save_parquet: df.to_parquet writes the file *)
(* or raises; lines 127-129 then roll back, which undoes nothing that was  *)
(* committed.                                                              *)
UploadSaveParquet ==
    \E written \in BOOLEAN :
        /\ thr[1].pc = "save_parquet"
        /\ IF written
           THEN /\ db' = [db EXCEPT ![thr[1].id].file = TRUE]
                /\ thr' = [thr EXCEPT ![1].pc = "commit_path"]
                /\ UNCHANGED last
           ELSE /\ thr' = [thr EXCEPT ![1] = [pc |-> "idle", id |-> None]]
                /\ last' = UploadEnded("save_failed", thr[1].id)
                /\ UNCHANGED db
        /\ UNCHANGED <<selVars, cmpVars, cacheVars, used_before, next_id, calls,
                       same_id_gets_only, grpVars, fnVars>>

(* datasets.py lines 102-103: the path is assigned and committed, or the   *)
(* commit raises and the assignment is rolled back.                        *)
UploadCommitPath ==
    \E committed \in BOOLEAN :
        /\ thr[1].pc = "commit_path"
        /\ IF committed
           THEN /\ db' = [db EXCEPT ![thr[1].id].parquet_path = "set"]
                /\ thr' = [thr EXCEPT ![1].pc = "log_activity"]
                /\ UNCHANGED last
           ELSE /\ thr' = [thr EXCEPT ![1] = [pc |-> "idle", id |-> None]]
                /\ last' = UploadEnded("commit_failed", thr[1].id)
                /\ UNCHANGED db
        /\ UNCHANGED <<selVars, cmpVars, cacheVars, used_before, next_id, calls,
                       same_id_gets_only, grpVars, fnVars>>

(* datasets.py lines 106-125: log_activity and the answer.                 *)
UploadLogAndReturn ==
    \E logged \in BOOLEAN :
        /\ thr[1].pc = "log_activity"
        /\ thr' = [thr EXCEPT ![1] = [pc |-> "idle", id |-> None]]
        /\ last' = UploadEnded(IF logged THEN "ok" ELSE "log_failed", thr[1].id)
        /\ UNCHANGED <<selVars, cmpVars, cacheVars, used_before, apiVars, calls,
                       same_id_gets_only, grpVars, fnVars>>

(* list_datasets: every row of the table.                                  *)
list_datasets ==
    /\ last' = [op |-> "list_datasets", id |-> None, status |-> "ok",
                shown |-> Shown({id \in ApiIds : HasRow(id)}, Uploading)]
    /\ UNCHANGED <<selVars, cmpVars, cacheVars, used_before, apiVars, raceVars,
                   grpVars, fnVars>>

(* get_dataset_meta: the row of the id, or 404.                            *)
get_dataset_meta ==
    \E dataset_id \in ApiIds :
        /\ last' = IF HasRow(dataset_id)
                   THEN [op |-> "get_dataset_meta", id |-> dataset_id, status |-> "ok",
                         shown |-> Shown({dataset_id}, Uploading)]
                   ELSE [op |-> "get_dataset_meta", id |-> dataset_id, status |-> "not_found",
                         shown |-> Shown({}, Uploading)]
        /\ UNCHANGED <<selVars, cmpVars, cacheVars, used_before, apiVars, raceVars,
                       grpVars, fnVars>>

UploadNext ==
    \/ UploadCommitRow \/ UploadSaveParquet \/ UploadCommitPath \/ UploadLogAndReturn
    \/ list_datasets \/ get_dataset_meta

SpecUpload == UploadInit /\ [][UploadNext]_vars

Whole(row) == row.parquet_path # "" /\ row.file

ShowsAfterUpload ==
    /\ last.op \in {"list_datasets", "get_dataset_meta"}
    /\ ~last.shown.uploading

(* C27: once upload_dataset has ended, with an answer or with an error,    *)
(* every dataset that list_datasets or get_dataset_meta shows has its      *)
(* parquet_path set and its table file on disk.                            *)
C27_UploadIsAtomic ==
    ShowsAfterUpload =>
        \A id \in DOMAIN last.shown.rows : Whole(last.shown.rows[id])

C27_RowWithoutFileListed ==
    /\ last.op = "list_datasets"
    /\ ~last.shown.uploading
    /\ \E id \in DOMAIN last.shown.rows :
           /\ last.shown.rows[id].parquet_path = ""
           /\ ~last.shown.rows[id].file

C27_RowWithoutPathShown ==
    /\ last.op = "get_dataset_meta"
    /\ last.status = "ok"
    /\ ~last.shown.uploading
    /\ last.shown.rows[last.id].parquet_path = ""
    /\ last.shown.rows[last.id].file

C27_WholeAfterSuccess ==
    [][last'.op = "upload_dataset" /\ last'.status \in {"ok", "log_failed"} /\ last' # last
          => Whole(db'[last'.id])]_vars

(***************************************************************************)
(* SpecKeys: the loop of calculate_descriptive_stats that fills            *)
(* grouped_statistics and group_summaries, on a table with the text        *)
(* columns "g1" and "g2" to group by and the numeric variable "v".  One    *)
(* of the texts holds the separator " | ".                                 *)
(***************************************************************************)
MaxKeyRows == 2
Separator == <<" ", "|", " ">>
KeyTexts == {Missing, Text(<<"a">>), Text(<<"a">> \o Separator \o <<"a">>)}
KeyRowKinds == [g1 : KeyTexts, g2 : KeyTexts, v : {Cell(10), Cell(20)}]
KeyGroupBy == {<<"g1">>, <<"g1", "g2">>, <<"ghost", "g2", "g1">>}
KeyInputs(n) ==
    [df : SeqsUpTo(KeyRowKinds, n), group_by : KeyGroupBy, max_groups : 0..n]

(* The order of the key tuples in groupby.                                 *)
RECURSIVE TupleLess(_, _)
TupleLess(a, b) ==
    IF a = <<>> THEN FALSE
    ELSE IF Head(a) = Head(b) THEN TupleLess(Tail(a), Tail(b))
    ELSE KeyLess(Head(a), Head(b))

RECURSIVE SortedTuples(_)
SortedTuples(keys) ==
    IF keys = {} THEN <<>>
    ELSE LET first == CHOOSE k \in keys : \A o \in keys \ {k} : TupleLess(k, o)
         IN <<first>> \o SortedTuples(keys \ {first})

(* Lines 530-532: the group columns are normalized and the rows grouped by *)
(* the tuple of their values; a row with a missing value is in no group.   *)
groupby_columns(df, valid_group_by) ==
    LET key(i) == [c \in DOMAIN valid_group_by |->
                      normalize_group_value(df[i][valid_group_by[c]])]
        grouped == {i \in DOMAIN df : \A c \in DOMAIN valid_group_by : key(i)[c] # Missing}
        order == SortedTuples({key(i) : i \in grouped})
    IN [j \in DOMAIN order |->
           [group_vals |-> order[j], rows |-> {i \in grouped : key(i) = order[j]}]]

(* Line 549: " | ".join(str(v) for v in group_vals)                        *)
RECURSIVE join_group_key(_)
join_group_key(group_vals) ==
    IF Len(group_vals) = 1 THEN str(group_vals[1], FALSE)
    ELSE str(group_vals[1], FALSE) \o Separator \o join_group_key(Tail(group_vals))

(* Lines 555-564: the statistics of the variable on the rows of the group. *)
group_stats_list(df, rows) ==
    LET series == SelectSeq([i \in DOMAIN df |-> [df[i].v EXCEPT !.na = i \notin rows]],
                            LAMBDA c : ~c.na)
    IN <<calculate_column_stats("numeric", series, FALSE, TRUE)>>

(* Lines 547-566: grouped_stats[group_key] = group_stats_list, group after *)
(* group.                                                                  *)
RECURSIVE fill_grouped_stats(_, _, _)
fill_grouped_stats(df, groups, grouped_stats) ==
    IF groups = <<>> THEN grouped_stats
    ELSE fill_grouped_stats(df, Tail(groups),
             DictSet(grouped_stats, join_group_key(Head(groups).group_vals),
                     group_stats_list(df, Head(groups).rows)))

(* Lines 526-573 for sort_groups_by="name".                                *)
grouped_response(df, group_by, max_groups) ==
    LET valid_group_by == SelectSeq(group_by, LAMBDA g : g \in {"g1", "g2"})
        all == groupby_columns(df, valid_group_by)
        groups == SubSeq(all, 1, IF max_groups < Len(all) THEN max_groups ELSE Len(all))
    IN [fate |-> "done",
        total_groups |-> Len(all),
        grouped_statistics |-> fill_grouped_stats(df, groups, <<>>),
        group_summaries |->
            [j \in DOMAIN groups |->
                [group_key |-> join_group_key(groups[j].group_vals),
                 group_vals |-> groups[j].group_vals,
                 rows |-> groups[j].rows,
                 sample_size |-> Cardinality(groups[j].rows)]]]

KeysInit ==
    /\ fn_in \in KeyInputs(MaxKeyRows)
    /\ fn_out = Pending
    /\ FnOnly

KeysRun ==
    /\ fn_out = Pending
    /\ fn_out' = grouped_response(fn_in.df, fn_in.group_by, fn_in.max_groups)
    /\ UNCHANGED <<fn_in, otherVars>>

KeysNext == KeysRun

SpecKeys == KeysInit /\ [][KeysNext]_vars

SummaryKeys == {fn_out.group_summaries[j].group_key : j \in DOMAIN fn_out.group_summaries}
OneEntryPerSummary ==
    /\ DOMAIN fn_out.grouped_statistics = SummaryKeys
    /\ Cardinality(SummaryKeys) = Len(fn_out.group_summaries)
    /\ \A j \in DOMAIN fn_out.group_summaries :
           fn_out.grouped_statistics[fn_out.group_summaries[j].group_key]
               = group_stats_list(fn_in.df, fn_out.group_summaries[j].rows)

(* C28: grouped_statistics has exactly one entry for each entry of         *)
(* group_summaries, under its group_key and with the statistics of its     *)
(* rows: two groups of the response never have the same group_key.         *)
C28_OneEntryPerGroup == FnDone => OneEntryPerSummary

C28_HoldsForOneColumn ==
    (FnDone /\ fn_in.group_by = <<"g1">>) => OneEntryPerSummary

C28_KeysCollide ==
    /\ FnDone
    /\ Len(fn_out.group_summaries) = 2
    /\ fn_out.group_summaries[1].group_key = fn_out.group_summaries[2].group_key
    /\ fn_out.group_summaries[1].group_vals # fn_out.group_summaries[2].group_vals
    /\ Cardinality(DOMAIN fn_out.grouped_statistics) = 1
    /\ fn_out.group_summaries[1].sample_size = 1
    /\ fn_in.df[1].v # fn_in.df[2].v

(***************************************************************************)
(* SpecTests: calculate_descriptive_stats with comparison tests, on a      *)
(* table with the grouping columns "g1" and "g2" and the variable "v".     *)
(* A comparison test is kept as the variable, the keys of the groups       *)
(* compared and their observations, which are all that scipy is given.     *)
(***************************************************************************)
MaxTestRows == 4
TestRowKinds == [g1 : {Number(1), Number(2)}, g2 : {Number(1)}, v : {NA, Cell(1)}]
TestGroupBy == {<<"ghost">>, <<"ghost", "g1">>, <<"g1", "g2">>}
TestVariables == {<<"v">>, <<"ghost", "v">>}
TestInputs(n) ==
    [df : SeqsUpTo(TestRowKinds, n), group_by : TestGroupBy, variables : TestVariables,
     sort_groups_by : {"mean_asc"}, max_groups : {1},
     run_comparison_tests : BOOLEAN, treat_missing_as_zero : BOOLEAN]

(* Lines 311-322: the observations of the variable in the rows of a group. *)
group_observations(df, rows, treat_missing_as_zero) ==
    LET g == SelectSeq([i \in DOMAIN df |-> [df[i].v EXCEPT !.text = i \notin rows]],
                       LAMBDA c : ~c.text)
    IN SelectSeq(policy_series(g, treat_missing_as_zero), LAMBDA c : ~c.na /\ ~c.text)

(* Lines 293-482 on the rows `among` of the table: nothing for fewer than  *)
(* 2 groups; for each variable that is a column, the groups with at least  *)
(* 2 observations, and a test if there are at least 2 of them.             *)
compare_groups(df, among, variables, group_by_col, treat_missing_as_zero) ==
    LET table == [i \in DOMAIN df |->
                     IF i \in among THEN df[i] ELSE [df[i] EXCEPT ![group_by_col] = Missing]]
        groups == groupby_columns(table, <<group_by_col>>)
        observed == [k \in DOMAIN groups |->
                        [key |-> groups[k].group_vals[1],
                         data |-> group_observations(df, groups[k].rows,
                                                     treat_missing_as_zero)]]
        data_of_groups == SelectSeq(observed, LAMBDA g : Len(g.data) >= MinGroupObs)
        test(var) == IF var = "v" /\ Len(data_of_groups) >= 2
                     THEN <<[variable |-> var, n_groups |-> Len(data_of_groups),
                             groups |-> data_of_groups]>>
                     ELSE <<>>
        tests[k \in 0..Len(variables)] ==
            IF k = 0 THEN <<>> ELSE tests[k - 1] \o test(variables[k])
    IN IF Len(groups) < 2 THEN <<>> ELSE tests[Len(variables)]

(* The comparison made on the rows of the groups left by the limit.        *)
descriptive_response_TestsAfterLimit(df, group_by, variables, sort_groups_by, max_groups, run_comparison_tests, treat_missing_as_zero) ==
    LET valid_group_by == SelectSeq(group_by, LAMBDA g : g \in {"g1", "g2"})
        all == groupby_columns(df, valid_group_by)
        values == [i \in DOMAIN df |-> df[i].v]
        groups == sort_and_limit(all, values, variables, sort_groups_by, max_groups)
    IN IF valid_group_by = <<>>
       THEN [fate |-> "done", total_groups |-> Null, group_summaries |-> Null,
             comparison_tests |-> Null]
       ELSE [fate |-> "done",
             total_groups |-> Set(Len(all)),
             group_summaries |->
                 Set([j \in DOMAIN groups |->
                         [group_vals |-> groups[j].group_vals,
                          sample_size |-> Cardinality(groups[j].rows)]]),
             comparison_tests |->
                 IF run_comparison_tests /\ Len(valid_group_by) = 1 /\ Len(all) >= 2
                 THEN Set(compare_groups(df, UNION {groups[j].rows : j \in DOMAIN groups},
                                         variables, valid_group_by[1],
                                         treat_missing_as_zero))
                 ELSE Null]

(* Lines 520-583: the groups are counted, sorted, limited and summarized;  *)
(* compare_groups gets grouped_df, the whole normalized table.             *)
descriptive_response(df, group_by, variables, sort_groups_by, max_groups, run_comparison_tests, treat_missing_as_zero) ==
    LET valid_group_by == SelectSeq(group_by, LAMBDA g : g \in {"g1", "g2"})
        all == groupby_columns(df, valid_group_by)
        values == [i \in DOMAIN df |-> df[i].v]
        groups == sort_and_limit(all, values, variables, sort_groups_by, max_groups)
    IN IF valid_group_by = <<>>
       THEN [fate |-> "done", total_groups |-> Null, group_summaries |-> Null,
             comparison_tests |-> Null]
       ELSE [fate |-> "done",
             total_groups |-> Set(Len(all)),
             group_summaries |->
                 Set([j \in DOMAIN groups |->
                         [group_vals |-> groups[j].group_vals,
                          sample_size |-> Cardinality(groups[j].rows)]]),
             comparison_tests |->
                 IF run_comparison_tests /\ Len(valid_group_by) = 1 /\ Len(all) >= 2
                 THEN Set(compare_groups(df, DOMAIN df, variables, valid_group_by[1],
                                         treat_missing_as_zero))
                 ELSE Null]

TestsInit ==
    /\ fn_in \in TestInputs(MaxTestRows)
    /\ fn_out = Pending
    /\ FnOnly

TestsRun ==
    /\ fn_out = Pending
    /\ fn_out' = descriptive_response(fn_in.df, fn_in.group_by, fn_in.variables,
                                      fn_in.sort_groups_by, fn_in.max_groups,
                                      fn_in.run_comparison_tests,
                                      fn_in.treat_missing_as_zero)
    /\ UNCHANGED <<fn_in, otherVars>>

TestsNext == TestsRun

SpecTests == TestsInit /\ [][TestsNext]_vars

ExistingGroupColumns == SelectSeq(fn_in.group_by, LAMBDA g : g \in {"g1", "g2"})
GroupsOfTable == {fn_in.df[i].g1 : i \in DOMAIN fn_in.df}
ObservationsOf(key) ==
    Cardinality({i \in DOMAIN fn_in.df :
                    /\ fn_in.df[i].g1 = key
                    /\ fn_in.treat_missing_as_zero \/ ~fn_in.df[i].v.na})
ComparableGroups == {key \in GroupsOfTable : ObservationsOf(key) >= MinGroupObs}
TestsReturned == fn_out.comparison_tests # Null
TheTests == CHOOSE tests \in fn_out.comparison_tests : TRUE
TestsFor(sort_groups_by, max_groups) ==
    descriptive_response(fn_in.df, fn_in.group_by, fn_in.variables, sort_groups_by,
                         max_groups, fn_in.run_comparison_tests,
                         fn_in.treat_missing_as_zero).comparison_tests

(* C29: comparison tests are returned only if run_comparison_tests is set, *)
(* exactly one of the grouping columns given is a column of the table and  *)
(* the table has at least 2 groups; each test compares every group of the  *)
(* table with at least 2 observations, listed or not, and the tests are    *)
(* the same for every max_groups and sort_groups_by.                       *)
C29_TestsOverAllGroups ==
    FnDone =>
        /\ TestsReturned =>
               /\ fn_in.run_comparison_tests
               /\ Len(ExistingGroupColumns) = 1
               /\ Cardinality(GroupsOfTable) >= 2
               /\ \A k \in DOMAIN TheTests :
                      {TheTests[k].groups[j].key : j \in DOMAIN TheTests[k].groups}
                          = ComparableGroups
        /\ \A sort_groups_by \in SortOrders, max_groups \in 0..(Len(fn_in.df) + 1) :
               TestsFor(sort_groups_by, max_groups) = fn_out.comparison_tests

C29_Witness ==
    /\ FnDone
    /\ TestsReturned
    /\ Len(TheTests) = 1
    /\ Cardinality(ComparableGroups) = 2
    /\ fn_in.max_groups = 1
    /\ fn_in.sort_groups_by = "mean_asc"
    /\ fn_out.total_groups = Set(2)
    /\ \A summaries \in fn_out.group_summaries : Len(summaries) = 1

C29_WitnessNotReturned ==
    /\ FnDone
    /\ ~TestsReturned
    /\ fn_in.run_comparison_tests
    /\ Len(ExistingGroupColumns) = 2
    /\ Cardinality(GroupsOfTable) = 2

(***************************************************************************)
(* SpecServe: uploads, requests, reclassifications and deletions one at a  *)
(* time, with the content of the tables.  A row keeps the table written    *)
(* to its parquet file at upload and whether the file was written; the     *)
(* cache maps an id to the table object a request was given.  A new row    *)
(* gets the id after the largest one in the datasets table, as SQLite      *)
(* numbers an INTEGER PRIMARY KEY, so the id of a deleted last row is      *)
(* given out again.  The column types, on which no table depends, are not  *)
(* kept.  The run starts with max_cache_size - 1 datasets uploaded and     *)
(* requested once; they stay, the first MaxServedAgain of them are          *)
(* requested again, and the two datasets after them come and go, so that   *)
(* there is one dataset more than the cache holds.                         *)
(* used_before keeps every (id, table) ever uploaded.                      *)
(***************************************************************************)
MaxServedAgain == 1
ServeIds == 1..(max_cache_size + 1)
ChangedIds == max_cache_size..(max_cache_size + 1)
ServedIds == 1..MaxServedAgain \cup ChangedIds
Uploads == {"A", "B"}
Table(upload) ==
    IF upload = "A" THEN <<[a |-> "x", b |-> "x"], [a |-> "y", b |-> "x"]>>
    ELSE <<[a |-> "x", b |-> "y"], [a |-> "y", b |-> "y"]>>
StoredRow30(table, written) == [table |-> table, file |-> written]
RowFilters == {<<>>, <<[col_key |-> "a", values |-> {"x"}]>>}

(* The handler filtering the table it was given in place.                  *)
table_after_request_InPlace(df, filters) == apply_filters(df, filters)

(* The table object a request was given, after the request: the handlers   *)
(* and services work on copies (apply_filters 133, normalize_group_columns *)
(* 51, df[col].copy() in the statistics).                                  *)
table_after_request(df, filters) == df

(* The id SQLite gives the next row.                                       *)
next_rowid ==
    LET ids == {id \in ServeIds : HasRow(id)} IN
    IF ids = {} THEN 1 ELSE 1 + (CHOOSE m \in ids : \A id \in ids : id <= m)

ServeInit ==
    /\ LET n == max_cache_size - 1 IN
           /\ db = [id \in ServeIds |->
                       IF id <= n THEN StoredRow30(Table("A"), TRUE) ELSE NoRow]
           /\ cache_order = [i \in 1..n |-> i]
           /\ df_cache = [i \in 1..n |-> Table("A")]
           /\ used_before = {<<id, Table("A")>> : id \in 1..n}
    /\ next_id = 0
    /\ last = NoCall
    /\ SelectIdle /\ CompareIdle /\ RaceIdle /\ GroupIdle /\ FnIdle

(* upload_dataset: ended before the row is added, or the row is committed  *)
(* and the table file is or is not written.                                *)
ServeUpload ==
    \E outcome \in UploadOutcomes, upload \in Uploads :
        LET table == Table(upload) IN
        /\ IF outcome = "rejected"
           THEN /\ UNCHANGED <<db, used_before>>
                /\ last' = [op |-> "upload_dataset", id |-> None, status |-> outcome]
           ELSE /\ next_rowid \in ServeIds
                /\ db' = [db EXCEPT ![next_rowid] = StoredRow30(table, outcome = "ok")]
                /\ used_before' = used_before \cup {<<next_rowid, table>>}
                /\ last' = [op |-> "upload_dataset", id |-> next_rowid, status |-> outcome]
        /\ UNCHANGED <<selVars, cmpVars, cacheVars, next_id, raceVars, grpVars, fnVars>>

(* A statistics, correlation or data request: the row, the table from      *)
(* get_cached_dataframe, the filters, the answer.                          *)
ServeRequest ==
    \E dataset_id \in ServedIds, load_ok \in BOOLEAN, filters \in RowFilters :
        IF ~HasRow(dataset_id)
        THEN /\ last' = [op |-> "request", id |-> dataset_id, status |-> "not_found"]
             /\ UNCHANGED <<selVars, cmpVars, cacheVars, used_before, apiVars, raceVars,
                            grpVars, fnVars>>
        ELSE LET r == get_cached_dataframe(df_cache, cache_order, dataset_id,
                                           load_ok /\ db[dataset_id].file)
                 df == IF r.hit THEN df_cache[dataset_id] ELSE db[dataset_id].table
             IN
             /\ df_cache' = [k \in DOMAIN r.cache |->
                                IF k = dataset_id
                                THEN table_after_request(df, filters)
                                ELSE r.cache[k]]
             /\ cache_order' = r.order
             /\ last' = IF r.raised = "none"
                        THEN [op |-> "request", id |-> dataset_id, status |-> "ok",
                              hit |-> r.hit, evicted |-> r.evicted # <<>>, computed_on |-> df,
                              answer |-> apply_filters(df, filters),
                              reloaded |-> apply_filters(db[dataset_id].table, filters)]
                        ELSE [op |-> "request", id |-> dataset_id, status |-> "load_error"]
             /\ UNCHANGED <<selVars, cmpVars, used_before, apiVars, raceVars, grpVars, fnVars>>

(* update_column_type: 400 or 404 for a bad request, else the commit and   *)
(* clear_cache.                                                            *)
ServeUpdateColumnType ==
    \E dataset_id \in ChangedIds, update \in UpdateInputs :
        LET status == IF ~HasRow(dataset_id) THEN "not_found"
                      ELSE IF update.var_type \notin VarTypes THEN "bad_type"
                      ELSE IF update.col_key # "x" THEN "no_column"
                      ELSE "ok"
            c == clear_cache(df_cache, cache_order, dataset_id)
        IN
        /\ last' = [op |-> "update_column_type", id |-> dataset_id, status |-> status]
        /\ IF status = "ok"
           THEN /\ df_cache' = c.cache
                /\ cache_order' = c.order
           ELSE UNCHANGED <<df_cache, cache_order>>
        /\ UNCHANGED <<selVars, cmpVars, used_before, apiVars, raceVars, grpVars, fnVars>>

(* delete_dataset: the file, the cache entry, the row.                     *)
ServeDeleteDataset ==
    \E dataset_id \in ChangedIds :
        LET c == clear_cache(df_cache, cache_order, dataset_id) IN
        /\ last' = [op |-> "delete_dataset", id |-> dataset_id,
                    status |-> IF HasRow(dataset_id) THEN "ok" ELSE "not_found"]
        /\ IF HasRow(dataset_id)
           THEN /\ db' = [db EXCEPT ![dataset_id] = NoRow]
                /\ df_cache' = c.cache
                /\ cache_order' = c.order
           ELSE UNCHANGED <<db, df_cache, cache_order>>
        /\ UNCHANGED <<selVars, cmpVars, used_before, next_id, raceVars, grpVars, fnVars>>

ServeNext == ServeUpload \/ ServeRequest \/ ServeUpdateColumnType \/ ServeDeleteDataset

SpecServe == ServeInit /\ [][ServeNext]_vars

Answered30 == last.op = "request" /\ last.status = "ok"
CacheHoldsStoredTables ==
    \A id \in DOMAIN df_cache :
        /\ HasRow(id)
        /\ db[id].file
        /\ df_cache[id] = db[id].table

(* C30: with one request at a time, every cached table is the table        *)
(* stored at the upload of the row that has its id now, a request          *)
(* computes on that table whether it comes from the cache or from the      *)
(* file, its answer is the answer from the file, and no request changes a  *)
(* table that stays in the cache.                                          *)
C30_CacheServesStoredTable ==
    /\ [](/\ CacheHoldsStoredTables
          /\ Answered30 => /\ last.computed_on = db[last.id].table
                           /\ last.answer = last.reloaded)
    /\ [][last'.op = "request" =>
              \A id \in DOMAIN df_cache \cap DOMAIN df_cache' :
                  df_cache'[id] = df_cache[id]]_vars

C30_Witness ==
    /\ Answered30
    /\ last.hit
    /\ last.computed_on = Table("B")
    /\ last.answer = <<[a |-> "x", b |-> "y"]>>
    /\ <<last.id, Table("A")>> \in used_before
    /\ Len(cache_order) = max_cache_size

C30_WitnessEviction ==
    /\ Answered30
    /\ ~last.hit
    /\ last.evicted
    /\ <<last.id, Table("A")>> \in used_before
    /\ last.computed_on = Table("B")

====
